---- MODULE Spec2Model ----
\* State-machine model of the TikTok scraper's session/navigation core:
\* BrowserSetup (browser_setup.py), TikTokScraper (tiktok_scraper.py) and
\* ConnectionManager (connection_manager.py), driven for one account the way
\* run_scraper (main.py) drives them.
EXTENDS Integers, Sequences, FiniteSets, TLC

VARIABLES
    live,            \* browser processes that are running
    driver,          \* self.driver: NoDriver while the attribute is unset, else a browser id
    local_driver,    \* `driver` local of create_human_browser between launch and return
    page,            \* DOM handed to _check_content_loaded
    check_err,       \* whether a probe of that check raised
    verdict,         \* what that check returned, NoValue before it returns
    pc,              \* position of the single control thread
    start_caller,    \* who called start_browser: "main" or "rotate"
    cleanup_caller,  \* who called cleanup: "main" or "rotate"
    rot_site,        \* call site of rotate_browser_session: "verdict" (line 100) or "except" (line 106)
    load_caller,     \* who called load_page_with_retry: "account" or "videos"
    exc,             \* description of the exception execute_with_retry is about to catch
    max_retries,     \* load_page_with_retry's max_retries parameter
    attempt,         \* load_page_with_retry's loop index
    navs,            \* driver.get calls issued by the current load_page_with_retry call
    rots,            \* rotate_browser_session calls made by the current load call
    att_rots,        \* rotate_browser_session calls made by the attempt `outcome` is about
    outcome,         \* how the latest attempt ended: "Ready", "NotReady", "NavError"
    nav_failed,      \* some driver.get of the current load call raised
    rot_failed,      \* some rotation of the current load call raised
    lp_result,       \* how the current load call ended: "none", "True", "False", "Raised"
    cm_max_retries,  \* ConnectionManager.max_retries
    base_delay,      \* ConnectionManager.base_delay
    cm_attempt,      \* execute_with_retry's loop index
    last_exception,  \* execute_with_retry's last_exception
    invocations,     \* calls of func made by execute_with_retry
    sleeps,          \* delays slept by execute_with_retry, in order
    op_value,        \* value last returned by _scrape_attempt, NoVideos when none
    cm_raised,       \* exception execute_with_retry raised to scrape_recent_videos
    sv_result,       \* value returned by scrape_recent_videos, NoVideos before it returns
    sv_clean,        \* in this scrape_recent_videos call no verdict was Ready and nothing raised
    acct_result,     \* value returned by scrape_account_metrics
    attempt_videos,  \* len(videos) of the current _scrape_attempt call when it ended
    saved_rows,      \* rows _save_video_metrics has appended in this scrape_recent_videos call
    grid,            \* post elements of the profile page, in page order
    video_elements,  \* how many of them find_elements returned in this scroll pass
    scroll_pass,     \* index of the scroll pass of _scrape_attempt (its loop variable `_`)
    elem,            \* position in video_elements of the element the inner loop is at
    videos,          \* the `videos` list of _scrape_attempt
    extracted,       \* every record _extract_video_data has built, in order
    stopped,         \* the scan left its scroll loop through the break of line 193
    scan_pc,         \* position inside the post scan of _scrape_attempt
    kind,            \* which record is being built: "account" or "post"
    field_dom,       \* per field, what the page gives the field's extractor
    record,          \* the record built, NoRecord when the builder returned None
    written,         \* rows _save_account_metrics has appended
    propagated,      \* an extractor's exception reached the builder's except clause
    fields_pc,       \* position of the record builder
    run_pc,          \* position in main and run_scraper
    account,         \* index in ACCOUNTS of the account of the current iteration, 0 before the first
    scraper,         \* run_scraper's `scraper` is set (not None)
    attempted,       \* accounts whose iteration has begun in this run, in order
    metrics_calls,   \* calls of scrape_account_metrics for the current account
    validation_failed, \* the current account's metrics failed the zero validation
    abandoned,       \* accounts skipped by the `continue` of main.py line 71
    errored,         \* accounts in whose iteration an exception reached line 97
    completed,       \* accounts whose iteration ran to its end
    pending,         \* a KeyboardInterrupt is propagating through the finally clause
    interrupt_pc,    \* where control stood when the interrupt arrived, "none" before
    runs,            \* scraping runs started by main
    videos_data,     \* run_scraper's videos_data is a non-empty list
    tracking_files,  \* accounts whose <account>_video_tracking.csv exists
    posts_saved,     \* accounts whose save_video_metrics call has returned in this run
    synced,          \* accounts for which update_video_metrics has been called in this run
    constructed,     \* accounts for which TikTokScraper(account) has returned in this run
    cleaned,         \* accounts whose scraper.cleanup() has returned in this run
    windows,         \* driver.window_handles: the open tabs, in order of opening
    focus,           \* the tab the driver's commands go to, NoWindow when that tab is closed
    tab_post,        \* position in the grid of the post whose record is being built
    tab_pc,          \* position inside _extract_video_data and _get_video_page_metrics
    tab_exit,        \* how _get_video_page_metrics ended: "metrics", "defaults", "raised"
    failed_step,     \* the step of the try block (lines 323-355) that raised, "none" if none
    container_timeout, \* the wait of line 334 timed out
    ts_input,        \* the video_id handed to _extract_timestamp_from_video_id, and how it was made
    ts_result,       \* what that call returned, and whether it raised
    ts_pc,           \* position of that call
    cnt_input,       \* the count_text handed to _convert_count_to_number
    cnt_result,      \* what that call returned, and whether it raised
    cnt_pc,          \* position of that call
    metrics_file,    \* the file <account>_account_metrics.csv
    metrics_archive, \* the file <account>_account_metrics.csv.old
    metrics_call,    \* the latest save_account_metrics call: the files before it, its record, whether it raised
    saves,           \* DataManager save calls made so far
    track_file,      \* the file <account>_video_tracking.csv
    track_call,      \* the latest save_video_metrics call: the file before it and its videos_data
    ever_saved       \* the video ids of all save_video_metrics calls so far

vars == <<live, driver, local_driver, page, check_err, verdict, pc, start_caller, cleanup_caller,
          rot_site, load_caller, exc, max_retries, attempt, navs, rots,
          att_rots, outcome, nav_failed, rot_failed, lp_result,
          cm_max_retries, base_delay, cm_attempt, last_exception,
          invocations, sleeps, op_value, cm_raised, sv_result, sv_clean,
          acct_result, attempt_videos, saved_rows, grid, video_elements, scroll_pass, elem, videos,
          extracted, stopped, scan_pc, kind, field_dom, record, written,
          propagated, fields_pc, run_pc, account, scraper, attempted,
          metrics_calls, validation_failed, abandoned, errored, completed,
          pending, interrupt_pc, runs, videos_data, tracking_files,
          posts_saved, synced, constructed, cleaned, windows, focus,
          tab_post, tab_pc, tab_exit, failed_step, container_timeout,
          ts_input, ts_result, ts_pc, cnt_input, cnt_result, cnt_pc,
          metrics_file, metrics_archive, metrics_call, saves, track_file,
          track_call, ever_saved>>

browser_vars == <<live, driver, local_driver>>
check_vars == <<page, check_err, verdict>>
load_vars == <<max_retries, attempt, navs, rots, att_rots, outcome,
               nav_failed, rot_failed, lp_result>>
cm_vars == <<cm_max_retries, base_delay, cm_attempt, last_exception,
             invocations, sleeps, op_value, cm_raised, sv_result,
             attempt_videos, saved_rows>>
scan_vars == <<grid, video_elements, scroll_pass, elem, videos, extracted,
               stopped, scan_pc>>
field_vars == <<kind, field_dom, record, written, propagated, fields_pc>>
audit_vars == <<videos_data, tracking_files, posts_saved, synced, constructed,
                cleaned>>
run_vars == <<run_pc, account, scraper, attempted, metrics_calls,
              validation_failed, abandoned, errored, completed, pending,
              interrupt_pc, runs, audit_vars>>
tab_vars == <<windows, focus, tab_post, tab_pc, tab_exit, failed_step,
              container_timeout>>
\* what the session and navigation steps leave alone
ts_vars == <<ts_input, ts_result, ts_pc>>
\* the variables of the helper functions and of the storage
cnt_vars == <<cnt_input, cnt_result, cnt_pc>>
metrics_vars == <<metrics_file, metrics_archive, metrics_call, saves>>
track_vars == <<track_file, track_call, ever_saved>>
util_vars == <<ts_vars, cnt_vars, metrics_vars, track_vars>>
ext_vars == <<scan_vars, field_vars, run_vars, tab_vars, util_vars>>

----------------------------------------------------------------------------
\* Bounds of the model.

\* largest max_retries passed to load_page_with_retry (the default is 3)
MaxRetries == 3
\* largest ConnectionManager.max_retries (the default is 3)
MaxCmRetries == 3
\* browser processes that can exist at once
MaxBrowsers == 2
\* base_delay ranges over 1..MaxBaseDelay and the default
MaxBaseDelay == 0
\* posts a successful scan can return
MaxVideos == 1
\* anti-bot elements a page can show at once
MaxChallenge == 1
\* post elements a profile page can hold
MaxPosts == 2
\* largest value a field of a page can show
MaxCount == 1
\* length of the ACCOUNTS list
NumAccounts == 2
\* scraping runs main starts
MaxRuns == 2
\* bits of each half of a video id (32 in the program, whose ids have 64 bits)
HalfBits == 3
\* longest non-numeric video id text
MaxIdLen == 2
\* longest count text that is enumerated
MaxTextLen == 3
\* rows of a storage file that exists before the first save
MaxRows == 2
\* DataManager save calls
MaxSaves == 3
\* save_video_metrics calls
MaxTrackSaves == 2
\* posts of one videos_data
MaxBatch == 2

\* Program constants.
DefaultBaseDelay == 5
JitterMax == 1
Quorum == 2
scroll_attempts == 3
EXCLUDE_PINNED_VIDEOS == TRUE

NoDriver == 0
NoExc == <<>>
NoException == [desc |-> NoExc, inv |-> 0]
NoValue == "none"
NoVideos == [returned |-> FALSE, videos |-> 0]
Videos(n) == [returned |-> TRUE, videos |-> n]

BrowserIds == 1..MaxBrowsers
BaseDelays == (1..MaxBaseDelay) \cup {DefaultBaseDelay}

----------------------------------------------------------------------------
\* The page.

\* selectors probed by _check_content_loaded, in order
indicators == <<"user-post-item", "followers-count", "likes-count", "user-title">>

\* anti-bot elements a page can show
challenge_indicators == {"verify-banner", "captcha-container", "verify-iframe"}

SeqRange(s) == {s[i] : i \in 1..Len(s)}

Pages == [content : SUBSET SeqRange(indicators),
          challenge : {c \in SUBSET challenge_indicators : Cardinality(c) <= MaxChallenge}]

\* about:blank of a freshly launched browser
EmptyPage == [content |-> {}, challenge |-> {}]

\* the pages as far as the content selectors tell them apart
ContentPages == {p \in Pages : p.challenge = {}}

----------------------------------------------------------------------------
\* The post grid of a profile page.

\* data-video-id attribute of an element that carries none
NoAttr == 0

\* a post element: what _is_pinned returns for it (False also when the
\* badge lookup raises), what lines 296-303 compute as is_new for it (True
\* also when no posting time could be extracted), and whether its
\* data-video-id attribute holds the id its link ends in (else it has none).
\* The id of a post is its position in the grid.
Posts == [pinned : BOOLEAN, new : BOOLEAN, attr : BOOLEAN]

Grids == UNION {[1..n -> Posts] : n \in 0..MaxPosts}

\* element.get_attribute('data-video-id') of the element at position i
AttrOf(i) == IF grid[i].attr THEN i ELSE NoAttr

\* the scan variables while no scan is under way
ScanIdle ==
    /\ grid = <<>>
    /\ video_elements = 0
    /\ scroll_pass = 0
    /\ elem = 0
    /\ videos = <<>>
    /\ extracted = <<>>
    /\ stopped = FALSE
    /\ scan_pc = "idle"

----------------------------------------------------------------------------
\* Fields of the records.

AccountFields == {"follower_count", "total_likes"}

\* fields of a post record read from its detail page or its badge
PostFields == {"likes", "comments", "shares", "description", "hashtags",
               "posting_time", "is_pinned"}

\* what _extract_video_data reads before it opens the detail page (the
\* link and the view count, lines 284-290), and the tab handling of
\* _get_video_page_metrics (lines 325-326)
PostSteps == {"link", "views", "tab"}

AllFields == AccountFields \cup PostFields \cup PostSteps

\* the zero/empty value of a field: 0, '', None, False
Default == 0

\* what a page gives an extractor: the lookup raises, or yields a value
\* (Default when the element is empty or its text converts to zero)
FieldStates ==
    {[raises |-> TRUE, value |-> Default]} \cup
    {[raises |-> FALSE, value |-> v] : v \in 0..MaxCount}

Absent == [raises |-> FALSE, value |-> Default]

NoRecord == [built |-> FALSE, values |-> [f \in AllFields |-> Default]]

\* the record builder's variables while no record is being built
FieldsIdle ==
    /\ kind = "none"
    /\ field_dom = [f \in AllFields |-> Absent]
    /\ record = NoRecord
    /\ written = 0
    /\ propagated = FALSE
    /\ fields_pc = "idle"

\* main's and run_scraper's variables while main is not running
RunIdle ==
    /\ run_pc = "idle"
    /\ account = 0
    /\ scraper = FALSE
    /\ attempted = <<>>
    /\ metrics_calls = 0
    /\ validation_failed = FALSE
    /\ abandoned = {}
    /\ errored = {}
    /\ completed = {}
    /\ pending = FALSE
    /\ interrupt_pc = "none"
    /\ runs = 0
    /\ videos_data = FALSE
    /\ tracking_files = {}
    /\ posts_saved = {}
    /\ synced = {}
    /\ constructed = {}
    /\ cleaned = {}

\* a browser tab: the profile page, or the detail page of the post at a
\* grid position
Profile == [tab |-> "profile", post |-> 0]
Detail(i) == [tab |-> "detail", post |-> i]
NoWindow == [tab |-> "none", post |-> 0]

\* the tabs while no post record is being built: the session shows the
\* profile page only
TabIdle ==
    /\ windows = <<Profile>>
    /\ focus = Profile
    /\ tab_post = 0
    /\ tab_pc = "idle"
    /\ tab_exit = "none"
    /\ failed_step = "none"
    /\ container_timeout = FALSE

\* Python's None as a timestamp value; a rendered timestamp has null FALSE
Null == [null |-> TRUE, min |-> 0, sec |-> 0]

NoCall == [raised |-> FALSE, value |-> Null]

\* no call of _extract_timestamp_from_video_id is under way
TsIdle ==
    /\ ts_input = [text |-> <<>>, numeric |-> FALSE, epoch |-> 0, low |-> 0]
    /\ ts_result = NoCall
    /\ ts_pc = "idle"

\* a number as _convert_count_to_number returns it: (-1)^neg * digits *
\* 10^(exp10 - scale); the int 0 of lines 491, 498, 510 and 514 is Zero
Zero == [neg |-> FALSE, digits |-> 0, scale |-> 0, exp10 |-> 0]

\* no call of _convert_count_to_number is under way
CntIdle ==
    /\ cnt_input = [missing |-> TRUE, text |-> <<>>]
    /\ cnt_result = [raised |-> FALSE, value |-> Zero]
    /\ cnt_pc = "idle"

\* a file that does not exist
NoFile == [is |-> "absent", header |-> <<>>, rows |-> <<>>]

\* no save_account_metrics call has been made
NoSave == [file |-> NoFile, archive |-> NoFile, snap |-> 0, raised |-> FALSE]

\* the account storage before the DataManager is used
MetricsIdle ==
    /\ metrics_file = NoFile
    /\ metrics_archive = NoFile
    /\ metrics_call = NoSave
    /\ saves = 0

\* the tracking file before the DataManager is used
TrackIdle ==
    /\ track_file = NoFile
    /\ track_call = [file |-> NoFile, batch |-> <<>>, time |-> 0]
    /\ ever_saved = {}

\* the helper functions and the storage are not in use
UtilIdle == TsIdle /\ CntIdle /\ MetricsIdle /\ TrackIdle

----------------------------------------------------------------------------
\* Exceptions, by their description str(e), as word sequences.

ErrConnRefused == <<"Max", "retries", "exceeded", "Connection", "refused">>
ErrInvalidSession == <<"Message", "invalid", "session", "id">>
ErrNoSuchWindow == <<"Message", "no", "such", "window">>
ErrLoadFailed == <<"Failed", "to", "load", "videos", "page">>

\* what a browser operation can raise
DriverErrors == {ErrConnRefused, ErrInvalidSession, ErrNoSuchWindow}

\* `sub in s` of Python, on word sequences
Contains(s, sub) ==
    \E i \in 1..(Len(s) - Len(sub) + 1) : SubSeq(s, i, i + Len(sub) - 1) = sub

IsRetryableAny(e) == TRUE

IsRetryableLoad(e) ==
    \/ Contains(e, <<"Connection", "refused">>)
    \/ Contains(e, <<"invalid", "session", "id">>)
    \/ Contains(e, <<"Failed", "to", "load">>)

\* connection_manager.py line 19
IsRetryable(e) ==
    \/ Contains(e, <<"Connection", "refused">>)
    \/ Contains(e, <<"invalid", "session", "id">>)

RECURSIVE Pow2(_)
Pow2(n) == IF n = 0 THEN 1 ELSE 2 * Pow2(n - 1)

BackoffDelayTimes(base, att, jitter) == base * (2 * att) + jitter

\* connection_manager.py line 20: base_delay * (2 ** attempt) + random.uniform(0, 1)
BackoffDelay(base, att, jitter) == base * Pow2(att) + jitter

----------------------------------------------------------------------------
\* _check_content_loaded

RECURSIVE CountFound(_, _)
CountFound(dom, sels) ==
    IF sels = <<>> THEN 0
    ELSE (IF Head(sels) \in dom THEN 1 ELSE 0) + CountFound(dom, Tail(sels))

check_content_loaded_any(dom, err) ==
    IF err THEN FALSE ELSE CountFound(dom.content, indicators) >= 1

check_content_loaded_challenge(dom, err) ==
    IF err THEN FALSE
    ELSE CountFound(dom.content, indicators) >= Quorum /\ dom.challenge = {}

\* dom: the page the driver shows; err: execute_script or a wait raised
\* something other than TimeoutException
check_content_loaded(dom, err) ==
    IF err THEN FALSE ELSE CountFound(dom.content, indicators) >= Quorum

----------------------------------------------------------------------------
\* Control-flow helpers.

RotationDueOffByOne(att, max) == att < max

\* `attempt < max_retries - 1`, tiktok_scraper.py lines 98 and 105
RotationDue(att, max) == att < max - 1

FreeIds == BrowserIds \ (live \cup {driver})

NewId == CHOOSE b \in FreeIds : \A c \in FreeIds : b <= c

\* sv_clean after a step in which `dirty` tells that something raised or
\* that a verdict was Ready
Dirty(dirty) ==
    sv_clean' = IF dirty /\ load_caller = "videos" THEN FALSE ELSE sv_clean

\* where an exception raised by start_browser lands: run_scraper's except
\* and finally (main.py lines 97-102), the except clause of
\* load_page_with_retry (the rotation of line 100 is inside its try), or,
\* for the rotation of line 106, the caller of load_page_with_retry
StartRaisedPc ==
    IF start_caller = "main" THEN "cleanup"
    ELSE IF rot_site = "verdict" THEN "lp_except"
    ELSE IF load_caller = "account" THEN "cleanup"
    ELSE "cm_except"

\* start_browser raises. The description of the exception is read only by
\* execute_with_retry (connection_manager.py line 19); elsewhere it is
\* logged and dropped.
StartRaised ==
    /\ pc' = StartRaisedPc
    /\ exc' \in (IF StartRaisedPc = "cm_except" THEN DriverErrors ELSE {NoExc})
    /\ lp_result' = IF start_caller = "rotate" /\ rot_site = "except"
                    THEN "Raised" ELSE lp_result
    /\ rot_failed' = IF start_caller = "rotate" THEN TRUE ELSE rot_failed
    /\ acct_result' = IF StartRaisedPc = "cleanup" /\ start_caller = "rotate"
                      THEN "Raised" ELSE acct_result
    /\ Dirty(TRUE)

\* a scraper instance right after construction: no driver attribute yet
InitScraper ==
    /\ live = {}
    /\ driver = NoDriver
    /\ local_driver = NoDriver
    /\ check_err = FALSE
    /\ verdict = NoValue
    /\ start_caller = "main"
    /\ cleanup_caller = "main"
    /\ rot_site = "none"
    /\ load_caller = "none"
    /\ exc = NoExc
    /\ attempt = 0
    /\ navs = 0
    /\ rots = 0
    /\ att_rots = 0
    /\ outcome = "none"
    /\ nav_failed = FALSE
    /\ rot_failed = FALSE
    /\ lp_result = "none"
    /\ cm_max_retries = 0
    /\ base_delay = 0
    /\ cm_attempt = 0
    /\ last_exception = NoException
    /\ invocations = 0
    /\ sleeps = <<>>
    /\ op_value = NoVideos
    /\ cm_raised = NoException
    /\ sv_result = NoVideos
    /\ sv_clean = TRUE
    /\ acct_result = NoValue
    /\ attempt_videos = 0
    /\ saved_rows = 0

\* run_scraper is about to call start_browser (main.py line 65); the
\* max_retries parameter of load_page_with_retry ranges up to its default
Init ==
    /\ TabIdle
    /\ UtilIdle
    /\ InitScraper
    /\ ScanIdle
    /\ RunIdle
    /\ FieldsIdle
    /\ page = EmptyPage
    /\ max_retries \in 1..MaxRetries
    /\ pc = "sb_launch"

----------------------------------------------------------------------------
\* BrowserSetup.create_human_browser, line 66: webdriver.Chrome(options=...)
create_human_browser_launch ==
    /\ pc = "sb_launch"
    /\ UNCHANGED ext_vars
    /\ \/ /\ FreeIds # {}
          /\ live' = live \cup {NewId}
          /\ local_driver' = NewId
          /\ pc' = "sb_config"
          /\ UNCHANGED <<exc, lp_result, rot_failed, acct_result, sv_clean>>
       \/ /\ StartRaised
          /\ UNCHANGED <<live, local_driver>>
    /\ UNCHANGED <<check_vars, driver, start_caller, cleanup_caller, rot_site,
                   load_caller, max_retries, attempt, navs, rots, att_rots,
                   outcome, nav_failed, cm_vars>>

\* BrowserSetup.create_human_browser, lines 67-102: the steps after the launch
\* (page-load timeout, stealth, CDP override, load-state script). When one
\* raises, the except clause re-raises without quitting: the local handle
\* is dropped, and the browser it launched keeps running unless the
\* runtime happens to reclaim it. On success start_browser stores the
\* handle in self.driver (tiktok_scraper.py line 32).
create_human_browser_configure ==
    /\ pc = "sb_config"
    /\ UNCHANGED ext_vars
    /\ \/ /\ driver' = local_driver
          /\ pc' = "sb_behavior"
          /\ UNCHANGED <<live, exc, lp_result, rot_failed, acct_result, sv_clean>>
       \/ /\ StartRaised
          /\ \E reclaimed \in BOOLEAN :
                live' = IF reclaimed THEN live \ {local_driver} ELSE live
          /\ UNCHANGED driver
    /\ local_driver' = NoDriver
    /\ UNCHANGED <<check_vars, start_caller, cleanup_caller, rot_site,
                   load_caller, max_retries, attempt, navs, rots, att_rots,
                   outcome, nav_failed, cm_vars>>

\* BrowserSetup.add_human_behavior (errors swallowed) and the return of
\* start_browser: to run_scraper (main.py line 65), which calls
\* scrape_account_metrics, or to rotate_browser_session, after which
\* load_page_with_retry continues with the next attempt (RotationDue
\* guarantees there is one)
add_human_behavior ==
    /\ pc = "sb_behavior"
    /\ UNCHANGED ext_vars
    /\ \E failed \in BOOLEAN : Dirty(failed)
    /\ \/ /\ start_caller = "main"
          /\ pc' = "acct_load"
          /\ UNCHANGED attempt
       \/ /\ start_caller = "rotate"
          /\ attempt' = attempt + 1
          /\ pc' = "lp_nav"
    /\ UNCHANGED <<check_vars, browser_vars, start_caller, cleanup_caller, rot_site,
                   load_caller, exc, max_retries, navs, rots, att_rots,
                   outcome, nav_failed, rot_failed, lp_result, cm_vars,
                   acct_result>>

\* TikTokScraper.cleanup, called by rotate_browser_session (line 80), which
\* goes on to start_browser, or by run_scraper's finally (main.py line 102).
\* A quit that raises may or may not have ended the browser process.
cleanup ==
    /\ pc = "cleanup"
    /\ UNCHANGED ext_vars
    /\ \/ /\ driver = NoDriver
          /\ UNCHANGED <<live, sv_clean>>
       \/ /\ driver # NoDriver
          /\ live' = live \ {driver}
          /\ UNCHANGED sv_clean
       \/ /\ driver # NoDriver
          /\ \E ended \in BOOLEAN : live' = IF ended THEN live \ {driver} ELSE live
          /\ Dirty(cleanup_caller = "rotate")
    /\ \/ /\ cleanup_caller = "rotate"
          /\ pc' = "sb_launch"
          /\ start_caller' = "rotate"
       \/ /\ cleanup_caller = "main"
          /\ pc' = "done"
          /\ UNCHANGED start_caller
    /\ cleanup_caller' = "main"
    /\ UNCHANGED <<check_vars, driver, local_driver, rot_site, load_caller, exc,
                   load_vars, cm_vars, acct_result>>

----------------------------------------------------------------------------
\* TikTokScraper.load_page_with_retry

\* the state in which load_page_with_retry starts for caller c
LoadBegin(c) ==
    /\ load_caller' = c
    /\ attempt' = 0
    /\ navs' = 0
    /\ rots' = 0
    /\ att_rots' = 0
    /\ outcome' = "none"
    /\ nav_failed' = FALSE
    /\ rot_failed' = FALSE
    /\ lp_result' = "none"
    /\ pc' = "lp_nav"

LoadReturnsTrue ==
    /\ lp_result' = "True"
    /\ pc' = IF load_caller = "account" THEN "acct_extract" ELSE "sv_scan"
    /\ UNCHANGED <<exc, acct_result>>

\* load_page_with_retry returns False (line 109): scrape_account_metrics
\* returns None and run_scraper skips the account (main.py lines 69-71);
\* _scrape_attempt raises (line 158)
LoadReturnsFalse ==
    /\ lp_result' = "False"
    /\ \/ /\ load_caller = "account"
          /\ acct_result' = "None"
          /\ pc' = "cleanup"
          /\ UNCHANGED exc
       \/ /\ load_caller = "videos"
          /\ exc' = ErrLoadFailed
          /\ pc' = "cm_except"
          /\ UNCHANGED acct_result

\* rotate_browser_session is entered from call site s
RotateFrom(s) ==
    /\ rot_site' = s
    /\ rots' = rots + 1
    /\ cleanup_caller' = "rotate"
    /\ pc' = "cleanup"

\* lines 87-90: driver.get(url), which raises on a handle whose browser is gone
load_page_navigate ==
    /\ pc = "lp_nav"
    /\ UNCHANGED ext_vars
    /\ navs' = navs + 1
    /\ \/ /\ driver \in live
          /\ pc' = "lp_check"
          /\ UNCHANGED <<outcome, att_rots, nav_failed, sv_clean>>
       \/ /\ outcome' = "NavError"
          /\ att_rots' = 0
          /\ nav_failed' = TRUE
          /\ pc' = "lp_except"
          /\ Dirty(TRUE)
    /\ UNCHANGED <<check_vars, browser_vars, start_caller, cleanup_caller, rot_site,
                   load_caller, exc, max_retries, attempt, rots, rot_failed,
                   lp_result, cm_vars, acct_result>>

\* lines 92-101: the readiness check on the DOM p the page shows by then
\* (the check probes content selectors only), and what follows it
load_page_check ==
    /\ pc = "lp_check"
    /\ UNCHANGED ext_vars
    /\ \E p \in ContentPages, err \in BOOLEAN :
          /\ \/ /\ check_content_loaded(p, err)
                /\ outcome' = "Ready"
                /\ att_rots' = 0
                /\ lp_result' = "True"
                /\ pc' = IF load_caller = "account" THEN "acct_extract" ELSE "sv_scan"
                /\ Dirty(TRUE)
                /\ UNCHANGED <<exc, rot_site, rots, cleanup_caller, acct_result>>
             \/ /\ ~check_content_loaded(p, err)
                /\ RotationDue(attempt, max_retries)
                /\ outcome' = "NotReady"
                /\ att_rots' = 1
                /\ RotateFrom("verdict")
                /\ Dirty(err)
                /\ UNCHANGED <<exc, lp_result, acct_result>>
             \/ /\ ~check_content_loaded(p, err)
                /\ ~RotationDue(attempt, max_retries)
                /\ outcome' = "NotReady"
                /\ att_rots' = 0
                /\ LoadReturnsFalse
                /\ Dirty(err)
                /\ UNCHANGED <<rot_site, rots, cleanup_caller>>
    /\ UNCHANGED <<check_vars, live, driver, local_driver, start_caller, load_caller,
                   max_retries, attempt, navs, nav_failed, rot_failed, cm_vars>>

load_page_except_norotate ==
    /\ pc = "lp_except"
    /\ UNCHANGED ext_vars
    /\ \/ /\ RotationDue(attempt, max_retries)
          /\ attempt' = attempt + 1
          /\ pc' = "lp_nav"
          /\ UNCHANGED <<exc, lp_result, acct_result>>
       \/ /\ ~RotationDue(attempt, max_retries)
          /\ LoadReturnsFalse
          /\ UNCHANGED attempt
    /\ UNCHANGED <<check_vars, browser_vars, start_caller, cleanup_caller,
                   rot_site, load_caller, max_retries, navs, rots, att_rots,
                   outcome, nav_failed, rot_failed, cm_vars, sv_clean>>

\* lines 103-109: the except clause, entered when driver.get raised or when
\* the rotation of line 100 raised
load_page_except ==
    /\ pc = "lp_except"
    /\ UNCHANGED ext_vars
    /\ \/ /\ RotationDue(attempt, max_retries)
          /\ att_rots' = att_rots + 1
          /\ RotateFrom("except")
          /\ UNCHANGED <<exc, lp_result, acct_result>>
       \/ /\ ~RotationDue(attempt, max_retries)
          /\ LoadReturnsFalse
          /\ UNCHANGED <<att_rots, rot_site, rots, cleanup_caller>>
    /\ UNCHANGED <<check_vars, browser_vars, start_caller, load_caller, max_retries,
                   attempt, navs, outcome, nav_failed, rot_failed, cm_vars,
                   sv_clean>>

----------------------------------------------------------------------------
\* TikTokScraper.scrape_account_metrics

\* line 121: the call of load_page_with_retry
scrape_account_metrics_load ==
    /\ pc = "acct_load"
    /\ UNCHANGED ext_vars
    /\ LoadBegin("account")
    /\ UNCHANGED <<check_vars, browser_vars, start_caller, cleanup_caller, rot_site, exc,
                   max_retries, cm_vars, sv_clean, acct_result>>

\* lines 125-147: extraction and the zero validation. With a record
\* run_scraper goes on to scrape_recent_videos (main.py line 73), which
\* builds its ConnectionManager (tiktok_scraper.py line 151) and enters
\* execute_with_retry; without one it skips the account. The constructor's
\* parameters (connection_manager.py line 6) range over their bounded sets,
\* the defaults that line 151 uses among them.
scrape_account_metrics_extract ==
    /\ pc = "acct_extract"
    /\ UNCHANGED ext_vars
    /\ \E follower_count \in 0..1, total_likes \in 0..1 :
          \/ /\ follower_count # 0 /\ total_likes # 0
             /\ acct_result' = "metrics"
             /\ cm_max_retries' \in 1..MaxCmRetries
             /\ base_delay' \in BaseDelays
             /\ pc' = "cm_invoke"
          \/ /\ ~(follower_count # 0 /\ total_likes # 0)
             /\ acct_result' = "None"
             /\ pc' = "cleanup"
             /\ UNCHANGED <<cm_max_retries, base_delay>>
    /\ UNCHANGED <<check_vars, browser_vars, start_caller, cleanup_caller, rot_site,
                   load_caller, exc, load_vars, cm_attempt, last_exception,
                   invocations, sleeps, op_value, cm_raised, sv_result,
                   sv_clean, attempt_videos, saved_rows>>

----------------------------------------------------------------------------
\* ConnectionManager.execute_with_retry, with func = _scrape_attempt

RecordFirstException(prev, e, inv) ==
    IF prev = NoException THEN [desc |-> e, inv |-> inv] ELSE prev

\* connection_manager.py line 18: last_exception = e, the exception of the
\* inv-th call of func
RecordException(prev, e, inv) == [desc |-> e, inv |-> inv]

ScrapeVideosReturnsPartial(v) ==
    /\ sv_result' = IF v = Videos(0) THEN Videos(attempt_videos) ELSE v
    /\ pc' = "cleanup"

\* scrape_recent_videos returns v and run_scraper moves on to its finally
ScrapeVideosReturns(v) ==
    /\ sv_result' = v
    /\ pc' = "cleanup"

\* line 16: func() is called; _scrape_attempt starts with
\* load_page_with_retry (tiktok_scraper.py line 157)
execute_with_retry_invoke ==
    /\ pc = "cm_invoke"
    /\ UNCHANGED ext_vars
    /\ invocations' = invocations + 1
    /\ attempt_videos' = 0
    /\ LoadBegin("videos")
    /\ UNCHANGED <<check_vars, browser_vars, start_caller, cleanup_caller, rot_site, exc,
                   max_retries, cm_max_retries, base_delay, cm_attempt,
                   last_exception, sleeps, op_value, cm_raised, sv_result,
                   sv_clean, acct_result, saved_rows>>

\* _save_video_metrics (tiktok_scraper.py lines 611-627) called with n
\* records: the rows are appended, or the write raises and the error is
\* logged and dropped
save_video_metrics_rows(n) ==
    \/ saved_rows' = saved_rows + n
    \/ saved_rows' = saved_rows

\* tiktok_scraper.py lines 160-199: the post scan on the Ready page. It
\* raises with some records already in `videos`, which are dropped with the
\* frame; or it reaches line 198, saves its records and returns the list,
\* which execute_with_retry returns at once (connection_manager.py line 16)
scrape_attempt_scan ==
    /\ pc = "sv_scan"
    /\ UNCHANGED ext_vars
    /\ \/ /\ exc' \in DriverErrors
          /\ attempt_videos' \in 0..MaxVideos
          /\ pc' = "cm_except"
          /\ UNCHANGED <<op_value, sv_result, saved_rows>>
       \/ /\ \E n \in 0..MaxVideos :
                /\ attempt_videos' = n
                /\ save_video_metrics_rows(n)
                /\ op_value' = Videos(n)
                /\ ScrapeVideosReturns(Videos(n))
          /\ UNCHANGED exc
    /\ UNCHANGED <<check_vars, browser_vars, start_caller, cleanup_caller, rot_site,
                   load_caller, load_vars, cm_max_retries, base_delay,
                   cm_attempt, last_exception, invocations, sleeps, cm_raised,
                   sv_clean, acct_result>>

\* connection_manager.py lines 17-27: the except clause and the end of the
\* loop; an exception leaving execute_with_retry is caught by
\* scrape_recent_videos, which returns [] (tiktok_scraper.py lines 203-205)
execute_with_retry_except ==
    /\ pc = "cm_except"
    /\ UNCHANGED ext_vars
    /\ last_exception' = RecordException(last_exception, exc, invocations)
    /\ \/ /\ IsRetryable(exc)
          /\ \E jitter \in 0..JitterMax :
                sleeps' = Append(sleeps, BackoffDelay(base_delay, cm_attempt, jitter))
          /\ cm_attempt' = cm_attempt + 1
          /\ \/ /\ cm_attempt + 1 < cm_max_retries
                /\ pc' = "cm_invoke"
                /\ UNCHANGED <<cm_raised, sv_result>>
             \/ /\ ~(cm_attempt + 1 < cm_max_retries)
                /\ cm_raised' = last_exception'
                /\ ScrapeVideosReturns(Videos(0))
       \/ /\ ~IsRetryable(exc)
          /\ cm_raised' = last_exception'
          /\ ScrapeVideosReturns(Videos(0))
          /\ UNCHANGED <<sleeps, cm_attempt>>
    /\ exc' = NoExc
    /\ UNCHANGED <<check_vars, browser_vars, start_caller, cleanup_caller, rot_site,
                   load_caller, load_vars, cm_max_retries, base_delay,
                   invocations, op_value, sv_clean, acct_result,
                   attempt_videos, saved_rows>>

----------------------------------------------------------------------------
Next ==
    \/ create_human_browser_launch
    \/ create_human_browser_configure
    \/ add_human_behavior
    \/ cleanup
    \/ load_page_navigate
    \/ load_page_check
    \/ load_page_except
    \/ scrape_account_metrics_load
    \/ scrape_account_metrics_extract
    \/ execute_with_retry_invoke
    \/ scrape_attempt_scan
    \/ execute_with_retry_except

Spec == Init /\ [][Next]_vars

----------------------------------------------------------------------------
\* The readiness check on its own: _check_content_loaded applied to every
\* page of Pages.

other_vars == <<start_caller, cleanup_caller, rot_site, load_caller, exc,
                sv_clean, acct_result>>

InitCheck ==
    /\ TabIdle
    /\ UtilIdle
    /\ InitScraper
    /\ ScanIdle
    /\ RunIdle
    /\ FieldsIdle
    /\ page \in Pages
    /\ max_retries = MaxRetries
    /\ pc = "check_call"

\* tiktok_scraper.py lines 36-74: one call of _check_content_loaded
check_content_loaded_call ==
    /\ pc = "check_call"
    /\ UNCHANGED ext_vars
    /\ \E err \in BOOLEAN :
          /\ check_err' = err
          /\ verdict' = IF check_content_loaded(page, err) THEN "True" ELSE "False"
    /\ pc' = "check_done"
    /\ UNCHANGED <<page, browser_vars, other_vars, load_vars, cm_vars>>

NextCheck == check_content_loaded_call

SpecCheck == InitCheck /\ [][NextCheck]_vars

----------------------------------------------------------------------------
\* The post scan of _scrape_attempt (tiktok_scraper.py lines 160-199), entered
\* once load_page_with_retry has returned True for the profile page.

session_vars == <<browser_vars, check_vars, load_vars, cm_vars, other_vars, pc>>
scan_frame == <<session_vars, field_vars, run_vars, tab_vars, util_vars>>

InitScan ==
    /\ TabIdle
    /\ UtilIdle
    /\ InitScraper
    /\ FieldsIdle
    /\ RunIdle
    /\ page = EmptyPage
    /\ max_retries = MaxRetries
    /\ pc = "sv_scan"
    /\ grid \in Grids
    /\ video_elements = 0
    /\ scroll_pass = 0
    /\ elem = 0
    /\ videos = <<>>
    /\ extracted = <<>>
    /\ stopped = FALSE
    /\ scan_pc = "find"

VideoDataNoBadge(i) ==
    [video_id |-> i,
     is_pinned |-> FALSE,
     is_new |-> grid[i].new,
     checked |-> FALSE]

\* the record of lines 306-313 for the post at grid position i, as far as
\* the scan reads it. checked: the detail page the record's fields come
\* from has passed _check_content_loaded since it was opened;
\* _get_video_page_metrics (lines 321-370) never calls that check.
VideoData(i) ==
    [video_id |-> i,
     is_pinned |-> grid[i].pinned,
     is_new |-> grid[i].new,
     checked |-> FALSE]

\* line 171: the element's data-video-id is compared with the video_id of
\* the records already in the list
AlreadyProcessed(i) ==
    /\ Len(videos) > 0
    /\ \E k \in 1..Len(videos) : videos[k].video_id = AttrOf(i)

IsOldInverted(v) == v.is_new /\ ~v.is_pinned

\* lines 185 and 192
IsOld(v) == ~v.is_new /\ ~v.is_pinned

\* line 167: find_elements returns the post elements the page holds by now
\* (scrolling may have loaded more), or raises
scrape_attempt_find_elements ==
    /\ scan_pc = "find"
    /\ \/ /\ \E n \in video_elements..Len(grid) : video_elements' = n
          /\ elem' = 1
          /\ scan_pc' = "element"
       \/ /\ scan_pc' = "raised"
          /\ UNCHANGED <<video_elements, elem>>
    /\ UNCHANGED <<grid, scroll_pass, videos, extracted, stopped, scan_frame>>

\* lines 169-189: one iteration of the loop over video_elements, or its end
scrape_attempt_element ==
    /\ scan_pc = "element"
    /\ \/ /\ elem > video_elements
          /\ scan_pc' = "pass_end"
          /\ UNCHANGED <<elem, videos, extracted>>
       \/ /\ elem <= video_elements
          /\ AlreadyProcessed(elem)
          /\ elem' = elem + 1
          /\ UNCHANGED <<scan_pc, videos, extracted>>
       \/ /\ elem <= video_elements
          /\ ~AlreadyProcessed(elem)
          \* _extract_video_data returns None: the link or the view count
          \* lookup raised (lines 284-290), before the detail page is opened
          /\ elem' = elem + 1
          /\ UNCHANGED <<scan_pc, videos, extracted>>
       \/ /\ elem <= video_elements
          /\ ~AlreadyProcessed(elem)
          \* _extract_video_data opens the detail page and returns a record
          /\ LET video_data == VideoData(elem) IN
                /\ extracted' = Append(extracted, video_data)
                /\ IF EXCLUDE_PINNED_VIDEOS /\ video_data.is_pinned
                   THEN /\ elem' = elem + 1
                        /\ UNCHANGED <<scan_pc, videos>>
                   ELSE /\ videos' = Append(videos, video_data)
                        /\ IF IsOld(video_data)
                           THEN /\ scan_pc' = "pass_end"
                                /\ UNCHANGED elem
                           ELSE /\ elem' = elem + 1
                                /\ UNCHANGED scan_pc
    /\ UNCHANGED <<grid, video_elements, scroll_pass, stopped, scan_frame>>

\* lines 191-196: the stop test after a pass, else _scroll_and_wait (which
\* swallows its errors) and the next pass
scrape_attempt_pass_end ==
    /\ scan_pc = "pass_end"
    /\ \/ /\ Len(videos) > 0 /\ IsOld(videos[Len(videos)])
          /\ stopped' = TRUE
          /\ scan_pc' = "save"
          /\ UNCHANGED scroll_pass
       \/ /\ ~(Len(videos) > 0 /\ IsOld(videos[Len(videos)]))
          /\ scroll_pass' = scroll_pass + 1
          /\ scan_pc' = IF scroll_pass + 1 < scroll_attempts THEN "find" ELSE "save"
          /\ UNCHANGED stopped
    /\ UNCHANGED <<grid, video_elements, elem, videos, extracted, scan_frame>>

\* lines 198-199: _save_video_metrics (which swallows its errors) and return
scrape_attempt_return ==
    /\ scan_pc = "save"
    /\ scan_pc' = "returned"
    /\ UNCHANGED <<grid, video_elements, scroll_pass, elem, videos, extracted,
                   stopped, scan_frame>>

NextScan ==
    \/ scrape_attempt_find_elements
    \/ scrape_attempt_element
    \/ scrape_attempt_pass_end
    \/ scrape_attempt_return

SpecScan == InitScan /\ [][NextScan]_vars

----------------------------------------------------------------------------
\* Building one record: the account record of scrape_account_metrics
\* (tiktok_scraper.py lines 125-147) and the post record of
\* _extract_video_data (lines 280-319).

TryExtractUnguarded(d) == [raised |-> d.raises, value |-> d.value]

\* the shape of every field extractor: the lookup and conversion run inside
\* try/except Exception, and the except clause returns the default
TryExtract(d) == [raised |-> FALSE, value |-> IF d.raises THEN Default ELSE d.value]

\* lines 207-217
extract_follower_count(d) == TryExtract(d)
\* lines 219-229
extract_total_likes(d) == TryExtract(d)
\* lines 372-378
extract_metric(d) == TryExtract(d)
\* lines 379-416
extract_description(d) == TryExtract(d)
\* lines 418-477
extract_hashtags(d) == TryExtract(d)
\* lines 516-545
extract_posting_time(d) == TryExtract(d)
\* lines 479-485
is_pinned(d) == TryExtract(d)

AnyNonZero(fc, tl) == fc # 0 \/ tl # 0

\* line 138: all(value != 0 ...) over the numeric values of the record, which
\* are follower_count and total_likes
AllNonZero(fc, tl) == fc # 0 /\ tl # 0

\* the fields a builder does not read, left at their default
RecordOf(values) ==
    [built |-> TRUE,
     values |-> [f \in AllFields |-> IF f \in DOMAIN values THEN values[f] ELSE Default]]

\* a page read by a builder: the fields it does not read are absent
PageOf(d) == [f \in AllFields |-> IF f \in DOMAIN d THEN d[f] ELSE Absent]

\* a step that works or raises
StepStates == {s \in FieldStates : s.value = Default}

\* The profile page as scrape_account_metrics reads it, or a post element
\* and its detail page as _extract_video_data reads them.
InitFields ==
    /\ TabIdle
    /\ UtilIdle
    /\ InitScraper
    /\ ScanIdle
    /\ RunIdle
    /\ page = EmptyPage
    /\ max_retries = MaxRetries
    /\ pc = "acct_extract"
    /\ \/ /\ kind = "account"
          /\ field_dom \in {PageOf(d) : d \in [AccountFields -> FieldStates]}
       \/ /\ kind = "post"
          /\ field_dom \in {PageOf(d @@ t) : d \in [PostFields -> FieldStates],
                                           t \in [PostSteps -> StepStates]}
    /\ record = NoRecord
    /\ written = 0
    /\ propagated = FALSE
    /\ fields_pc = "build"

\* scrape_account_metrics lines 125-147, on a page whose verdict was Ready
scrape_account_metrics_record ==
    /\ fields_pc = "build"
    /\ kind = "account"
    /\ LET fc == extract_follower_count(field_dom["follower_count"])
           tl == extract_total_likes(field_dom["total_likes"])
       IN  \/ /\ fc.raised \/ tl.raised
              \* lines 145-147
              /\ propagated' = TRUE
              /\ record' = NoRecord
              /\ UNCHANGED written
           \/ /\ ~(fc.raised \/ tl.raised)
              /\ AllNonZero(fc.value, tl.value)
              \* lines 139-140; _save_account_metrics swallows its errors
              /\ \E saved \in BOOLEAN : written' = written + (IF saved THEN 1 ELSE 0)
              /\ record' = RecordOf([f \in AccountFields |->
                               IF f = "follower_count" THEN fc.value ELSE tl.value])
              /\ UNCHANGED propagated
           \/ /\ ~(fc.raised \/ tl.raised)
              /\ ~AllNonZero(fc.value, tl.value)
              \* lines 142-143
              /\ record' = NoRecord
              /\ UNCHANGED <<written, propagated>>
    /\ fields_pc' = "done"
    /\ UNCHANGED <<kind, field_dom, session_vars, scan_vars, run_vars, tab_vars, util_vars>>

\* the extractor of a post field
ExtractPost(f, d) ==
    IF f \in {"likes", "comments", "shares"} THEN extract_metric(d)
    ELSE IF f = "description" THEN extract_description(d)
    ELSE IF f = "hashtags" THEN extract_hashtags(d)
    ELSE IF f = "posting_time" THEN extract_posting_time(d)
    ELSE is_pinned(d)

\* fields _get_video_page_metrics returns
PageFields == PostFields \ {"is_pinned"}

\* _extract_video_data lines 280-319 with _get_video_page_metrics lines 321-370
extract_video_data ==
    /\ fields_pc = "build"
    /\ kind = "post"
    /\ \/ /\ field_dom["link"].raises \/ field_dom["views"].raises
          \* lines 317-319
          /\ record' = NoRecord
          /\ UNCHANGED propagated
       \/ /\ ~(field_dom["link"].raises \/ field_dom["views"].raises)
          /\ LET got == [f \in PostFields |-> ExtractPost(f, field_dom[f])]
                 \* lines 357-370: the except clause of _get_video_page_metrics
                 failed == field_dom["tab"].raises \/ \E f \in PageFields : got[f].raised
                 video_metrics == [f \in PageFields |->
                                     IF failed THEN Default ELSE got[f].value]
             IN  /\ propagated' = ((\E f \in PostFields : got[f].raised) \/ propagated)
                 /\ \/ /\ got["is_pinned"].raised
                       /\ record' = NoRecord
                    \/ /\ failed
                       \* the tab handling of lines 360-362 raises inside the
                       \* except clause: lines 317-319 return None
                       /\ record' = NoRecord
                    \/ /\ ~got["is_pinned"].raised
                       /\ record' = RecordOf(
                            [f \in PostFields \cup {"views"} |->
                               IF f = "views" THEN field_dom["views"].value
                               ELSE IF f = "is_pinned" THEN got[f].value
                               ELSE video_metrics[f]])
    /\ fields_pc' = "done"
    /\ UNCHANGED <<kind, field_dom, written, session_vars, scan_vars, run_vars, tab_vars, util_vars>>

NextFields ==
    \/ scrape_account_metrics_record
    \/ extract_video_data

SpecFields == InitFields /\ [][NextFields]_vars

----------------------------------------------------------------------------
\* main and run_scraper (main.py): the loop over scheduled runs, the loop
\* over ACCOUNTS, and a KeyboardInterrupt, which Python raises in the main
\* thread wherever control stands when the signal arrives.

InitRun ==
    /\ TabIdle
    /\ UtilIdle
    /\ InitScraper
    /\ ScanIdle
    /\ FieldsIdle
    /\ page = EmptyPage
    /\ max_retries = MaxRetries
    /\ pc = "done"
    /\ run_pc = "main_loop"
    /\ account = 0
    /\ scraper = FALSE
    /\ attempted = <<>>
    /\ metrics_calls = 0
    /\ validation_failed = FALSE
    /\ abandoned = {}
    /\ errored = {}
    /\ completed = {}
    /\ pending = FALSE
    /\ interrupt_pc = "none"
    /\ runs = 0
    /\ videos_data = FALSE
    /\ tracking_files = {}
    /\ posts_saved = {}
    /\ synced = {}
    /\ constructed = {}
    /\ cleaned = {}

run_frame == <<session_vars, scan_vars, field_vars, tab_vars, util_vars>>

\* positions inside the try block of an account's iteration (lines 60-95)
TryPcs == {"construct", "start_browser", "metrics", "videos", "save", "sync"}

\* positions at which scrape_account_metrics or scrape_recent_videos is running
ExtractionPcs == {"metrics", "videos"}

\* an exception raised inside the try block goes to line 97
Raise ==
    /\ errored' = errored \cup {account}
    /\ run_pc' = "except"

\* main lines 123-129 and run_scraper lines 48-56: a run starts and builds
\* its managers; when SheetsSync raises, the error leaves run_scraper
main_run_start ==
    /\ run_pc = "main_loop"
    /\ videos_data' = FALSE
    /\ posts_saved' = {}
    /\ synced' = {}
    /\ constructed' = {}
    /\ cleaned' = {}
    /\ UNCHANGED tracking_files
    /\ runs < MaxRuns
    /\ runs' = runs + 1
    /\ account' = 0
    /\ attempted' = <<>>
    /\ abandoned' = {}
    /\ errored' = {}
    /\ completed' = {}
    /\ \/ run_pc' = "loop_head"
       \/ run_pc' = "main_error"
    /\ UNCHANGED <<scraper, metrics_calls, validation_failed, pending,
                   interrupt_pc, run_frame>>

\* lines 58-61: the for statement takes the next account, or ends
run_scraper_next_account ==
    /\ run_pc = "loop_head"
    /\ UNCHANGED <<tracking_files, posts_saved, synced, constructed, cleaned>>
    /\ \/ /\ account < NumAccounts
          /\ account' = account + 1
          /\ attempted' = Append(attempted, account + 1)
          /\ scraper' = FALSE
          /\ videos_data' = FALSE
          /\ metrics_calls' = 0
          /\ validation_failed' = FALSE
          /\ run_pc' = "construct"
       \/ /\ account >= NumAccounts
          /\ run_pc' = "combined"
          /\ UNCHANGED <<account, attempted, scraper, metrics_calls,
                         validation_failed, videos_data>>
    /\ UNCHANGED <<abandoned, errored, completed, pending, interrupt_pc, runs, run_frame>>

\* line 64: TikTokScraper(account), whose makedirs can raise
run_scraper_construct ==
    /\ run_pc = "construct"
    /\ \/ /\ scraper' = TRUE
          /\ constructed' = constructed \cup {account}
          /\ run_pc' = "start_browser"
          /\ UNCHANGED errored
       \/ /\ Raise
          /\ UNCHANGED <<scraper, constructed>>
    /\ UNCHANGED <<videos_data, tracking_files, posts_saved, synced, cleaned>>
    /\ UNCHANGED <<account, attempted, metrics_calls, validation_failed, abandoned,
                   completed, pending, interrupt_pc, runs, run_frame>>

\* line 65: scraper.start_browser()
run_scraper_start_browser ==
    /\ run_pc = "start_browser"
    /\ UNCHANGED audit_vars
    /\ \/ /\ run_pc' = "metrics"
          /\ UNCHANGED errored
       \/ Raise
    /\ UNCHANGED <<account, scraper, attempted, metrics_calls, validation_failed,
                   abandoned, completed, pending, interrupt_pc, runs, run_frame>>

\* lines 68-71: scrape_account_metrics is called once. It returns a record;
\* or None, because the page never became Ready or because the zero
\* validation errored, and the `continue` skips the account; or the rotation
\* inside load_page_with_retry raises (tiktok_scraper.py line 121 is outside
\* the try).
run_scraper_metrics ==
    /\ run_pc = "metrics"
    /\ UNCHANGED audit_vars
    /\ metrics_calls' = metrics_calls + 1
    /\ \/ /\ run_pc' = "videos"
          /\ UNCHANGED <<validation_failed, abandoned, errored>>
       \/ /\ \E zero \in BOOLEAN : validation_failed' = zero
          /\ abandoned' = abandoned \cup {account}
          /\ run_pc' = "finally"
          /\ UNCHANGED errored
       \/ /\ Raise
          /\ UNCHANGED <<validation_failed, abandoned>>
    /\ UNCHANGED <<account, scraper, attempted, completed, pending, interrupt_pc,
                   runs, run_frame>>

\* lines 73-75: scrape_recent_videos returns a list, empty or not; it
\* catches every Exception
run_scraper_videos ==
    /\ run_pc = "videos"
    /\ videos_data' \in BOOLEAN
    /\ UNCHANGED <<tracking_files, posts_saved, synced, constructed, cleaned>>
    /\ run_pc' = "save"
    /\ UNCHANGED <<account, scraper, attempted, metrics_calls, validation_failed,
                   abandoned, errored, completed, pending, interrupt_pc, runs,
                   run_frame>>

\* lines 77-80: DataManager.save_account_metrics and, for a non-empty
\* videos_data, save_video_metrics, which leaves the account's tracking
\* file behind; both log and re-raise (data_manager.py lines 92-94 and
\* 148-150)
run_scraper_save ==
    /\ run_pc = "save"
    /\ \/ /\ run_pc' = "sync"
          /\ IF videos_data
                THEN /\ tracking_files' = tracking_files \cup {account}
                     /\ posts_saved' = posts_saved \cup {account}
                ELSE UNCHANGED <<tracking_files, posts_saved>>
          /\ UNCHANGED errored
       \/ /\ Raise
          /\ UNCHANGED <<tracking_files, posts_saved>>
    /\ UNCHANGED <<videos_data, synced, constructed, cleaned>>
    /\ UNCHANGED <<account, scraper, attempted, metrics_calls, validation_failed,
                   abandoned, completed, pending, interrupt_pc, runs, run_frame>>

run_scraper_sync_always ==
    /\ run_pc = "sync"
    /\ synced' = synced \cup {account}
    /\ UNCHANGED <<videos_data, tracking_files, posts_saved, constructed, cleaned>>
    /\ completed' = completed \cup {account}
    /\ run_pc' = "finally"
    /\ UNCHANGED <<account, scraper, attempted, metrics_calls, validation_failed,
                   abandoned, errored, pending, interrupt_pc, runs, run_frame>>

\* lines 82-95: update_video_metrics is called when the account's tracking
\* file exists (line 85), and its errors are caught at line 91; then the
\* delay between accounts; the iteration has run to its end
run_scraper_sync ==
    /\ run_pc = "sync"
    /\ synced' = IF account \in tracking_files THEN synced \cup {account} ELSE synced
    /\ UNCHANGED <<videos_data, tracking_files, posts_saved, constructed, cleaned>>
    /\ completed' = completed \cup {account}
    /\ run_pc' = "finally"
    /\ UNCHANGED <<account, scraper, attempted, metrics_calls, validation_failed,
                   abandoned, errored, pending, interrupt_pc, runs, run_frame>>

run_scraper_except_reraise ==
    /\ run_pc = "except"
    /\ UNCHANGED audit_vars
    /\ run_pc' = "main_error"
    /\ UNCHANGED <<account, scraper, attempted, metrics_calls, validation_failed,
                   abandoned, errored, completed, pending, interrupt_pc, runs,
                   run_frame>>

\* lines 97-98: the error is logged
run_scraper_except ==
    /\ run_pc = "except"
    /\ UNCHANGED audit_vars
    /\ run_pc' = "finally"
    /\ UNCHANGED <<account, scraper, attempted, metrics_calls, validation_failed,
                   abandoned, errored, completed, pending, interrupt_pc, runs,
                   run_frame>>

\* lines 99-104: cleanup, whose errors are caught; then the next iteration,
\* or, when a KeyboardInterrupt is propagating, out of run_scraper to main
\* lines 142-144
run_scraper_finally ==
    /\ run_pc = "finally"
    /\ cleaned' = IF scraper THEN cleaned \cup {account} ELSE cleaned
    /\ UNCHANGED <<videos_data, tracking_files, posts_saved, synced, constructed>>
    /\ run_pc' = IF pending THEN "exited" ELSE "loop_head"
    /\ pending' = FALSE
    /\ UNCHANGED <<account, scraper, attempted, metrics_calls, validation_failed,
                   abandoned, errored, completed, interrupt_pc, runs, run_frame>>

\* lines 106-111: the combined update, whose errors are caught
run_scraper_combined ==
    /\ run_pc = "combined"
    /\ UNCHANGED audit_vars
    /\ run_pc' = "sleep"
    /\ UNCHANGED <<account, scraper, attempted, metrics_calls, validation_failed,
                   abandoned, errored, completed, pending, interrupt_pc, runs,
                   run_frame>>

\* main lines 131-140, the sleep until the next run; lines 145-148, the
\* sleep after an error that left run_scraper
main_sleep ==
    /\ run_pc \in {"sleep", "main_error"}
    /\ UNCHANGED audit_vars
    /\ run_pc' = "main_loop"
    /\ UNCHANGED <<account, scraper, attempted, metrics_calls, validation_failed,
                   abandoned, errored, completed, pending, interrupt_pc, runs,
                   run_frame>>

\* the interrupt signal arrives: KeyboardInterrupt is raised where control
\* stands. No `except Exception` catches it; inside an iteration's try
\* block, or its except clause, the finally clause runs and the exception
\* goes on to main's `except KeyboardInterrupt` (lines 142-144), which
\* leaves the main loop.
keyboard_interrupt ==
    /\ interrupt_pc = "none"
    /\ UNCHANGED audit_vars
    /\ run_pc \notin {"idle", "exited"}
    /\ interrupt_pc' = run_pc
    /\ \/ /\ run_pc \in TryPcs \cup {"except"}
          /\ pending' = TRUE
          /\ run_pc' = "finally"
       \/ /\ run_pc \notin TryPcs \cup {"except"}
          /\ run_pc' = "exited"
          /\ UNCHANGED pending
    /\ UNCHANGED <<account, scraper, attempted, metrics_calls, validation_failed,
                   abandoned, errored, completed, runs, run_frame>>

NextRun ==
    \/ main_run_start
    \/ run_scraper_next_account
    \/ run_scraper_construct
    \/ run_scraper_start_browser
    \/ run_scraper_metrics
    \/ run_scraper_videos
    \/ run_scraper_save
    \/ run_scraper_sync
    \/ run_scraper_except
    \/ run_scraper_finally
    \/ run_scraper_combined
    \/ main_sleep
    \/ keyboard_interrupt

SpecRun == InitRun /\ [][NextRun]_vars

----------------------------------------------------------------------------
\* The tabs of the session while _extract_video_data builds the records of
\* the posts of a grid, one after the other: _get_video_page_metrics opens
\* the post's detail page in a new tab and is to leave the profile tab
\* focused. Every driver command can raise.

tab_frame == <<session_vars, scan_vars, field_vars, run_vars, util_vars>>

InitTab ==
    /\ InitScraper
    /\ ScanIdle
    /\ FieldsIdle
    /\ RunIdle
    /\ UtilIdle
    /\ page = EmptyPage
    /\ max_retries = MaxRetries
    /\ pc = "sv_scan"
    /\ windows = <<Profile>>
    /\ focus = Profile
    /\ tab_post = 0
    /\ tab_pc = "element"
    /\ tab_exit = "none"
    /\ failed_step = "none"
    /\ container_timeout = FALSE

\* window_handles after the tab w has been closed
Closed(w) == SelectSeq(windows, LAMBDA x : x # w)

\* the except clause of lines 357-370 is entered from step s
Handler(s) ==
    /\ failed_step' = s
    /\ tab_pc' = "handler"

\* _extract_video_data lines 284-293 for the next post element: the lookups
\* inside the element need the profile tab to be the focused one; on any
\* other tab they raise and the record is None (lines 317-319)
extract_video_data_element ==
    /\ tab_pc = "element"
    /\ tab_post < MaxPosts
    /\ tab_post' = tab_post + 1
    /\ tab_exit' = "none"
    /\ failed_step' = "none"
    /\ container_timeout' = FALSE
    /\ tab_pc' = IF focus = Profile THEN "open" ELSE "element"
    /\ UNCHANGED <<windows, focus, tab_frame>>

\* line 325: window.open(video_url, '_blank')
get_video_page_metrics_open ==
    /\ tab_pc = "open"
    /\ \/ /\ windows' = Append(windows, Detail(tab_post))
          /\ tab_pc' = "switch"
          /\ UNCHANGED failed_step
       \/ /\ Handler("open")
          /\ UNCHANGED windows
    /\ UNCHANGED <<focus, tab_post, tab_exit, container_timeout, tab_frame>>

\* line 326: switch_to.window(window_handles[-1])
get_video_page_metrics_switch ==
    /\ tab_pc = "switch"
    /\ \/ /\ focus' = windows[Len(windows)]
          /\ tab_pc' = "extract"
          /\ UNCHANGED failed_step
       \/ /\ Handler("switch")
          /\ UNCHANGED focus
    /\ UNCHANGED <<windows, tab_post, tab_exit, container_timeout, tab_frame>>

\* lines 329-349: the wait for the video container, whose TimeoutException
\* is caught at line 335 while any other driver error is not, and the field
\* extractors, which swallow their errors
get_video_page_metrics_extract ==
    /\ tab_pc = "extract"
    /\ \/ /\ container_timeout' \in BOOLEAN
          /\ tab_pc' = "close"
          /\ UNCHANGED failed_step
       \/ /\ Handler("extract")
          /\ UNCHANGED container_timeout
    /\ UNCHANGED <<windows, focus, tab_post, tab_exit, tab_frame>>

\* line 352: driver.close() closes the focused tab and leaves the driver
\* on a closed window; when it raises, the tab may or may not be gone
get_video_page_metrics_close ==
    /\ tab_pc = "close"
    /\ \/ /\ windows' = Closed(focus)
          /\ focus' = NoWindow
          /\ tab_pc' = "switch_back"
          /\ UNCHANGED failed_step
       \/ /\ Handler("close")
          /\ \/ UNCHANGED <<windows, focus>>
             \/ /\ windows' = Closed(focus)
                /\ focus' = NoWindow
    /\ UNCHANGED <<tab_post, tab_exit, container_timeout, tab_frame>>

\* lines 353-355: switch_to.window(window_handles[0]) and the return of the
\* metrics
get_video_page_metrics_switch_back ==
    /\ tab_pc = "switch_back"
    /\ \/ /\ focus' = windows[1]
          /\ tab_exit' = "metrics"
          /\ tab_pc' = "element"
          /\ UNCHANGED failed_step
       \/ /\ Handler("switch_back")
          /\ UNCHANGED <<focus, tab_exit>>
    /\ UNCHANGED <<windows, tab_post, container_timeout, tab_frame>>

\* lines 357-370, the except clause: with more than one tab open it closes
\* the focused tab and switches to window_handles[0], then returns the
\* default metrics. driver.close() raises when the focused window is
\* already closed; an exception raised here leaves
\* _get_video_page_metrics and is caught by _extract_video_data (lines
\* 317-319).
get_video_page_metrics_except ==
    /\ tab_pc = "handler"
    /\ tab_pc' = "element"
    /\ \/ /\ Len(windows) > 1
          /\ focus # NoWindow
          /\ windows' = Closed(focus)
          /\ \/ /\ focus' = windows'[1]
                /\ tab_exit' = "defaults"
             \/ /\ focus' = NoWindow
                /\ tab_exit' = "raised"
       \/ /\ Len(windows) > 1
          /\ tab_exit' = "raised"
          /\ UNCHANGED <<windows, focus>>
       \/ /\ Len(windows) <= 1
          /\ tab_exit' = "defaults"
          /\ UNCHANGED <<windows, focus>>
    /\ UNCHANGED <<tab_post, failed_step, container_timeout, tab_frame>>

NextTab ==
    \/ extract_video_data_element
    \/ get_video_page_metrics_open
    \/ get_video_page_metrics_switch
    \/ get_video_page_metrics_extract
    \/ get_video_page_metrics_close
    \/ get_video_page_metrics_switch_back
    \/ get_video_page_metrics_except

SpecTab == InitTab /\ [][NextTab]_vars

----------------------------------------------------------------------------
\* _extract_timestamp_from_video_id (tiktok_scraper.py lines 548-565) applied
\* to the decimal text of ids built as (epoch << HalfBits) | low, and to
\* texts that are not numbers.

ts_frame == <<session_vars, scan_vars, field_vars, run_vars, tab_vars>>

Digits == <<"0", "1", "2", "3", "4", "5", "6", "7", "8", "9">>

IdChars == SeqRange(Digits) \cup {"x"}

\* str(n) of a non-negative int
RECURSIVE StrOf(_)
StrOf(n) ==
    IF n < 10 THEN <<Digits[n + 1]>>
    ELSE Append(StrOf(n \div 10), Digits[(n % 10) + 1])

DigitOf(c) == CHOOSE d \in 0..9 : Digits[d + 1] = c

\* int(text) succeeds: on these characters, a non-empty run of digits
IntParses(t) == t # <<>> /\ \A i \in 1..Len(t) : t[i] \in SeqRange(Digits)

RECURSIVE IntOf(_)
IntOf(t) ==
    IF t = <<>> THEN 0
    ELSE 10 * IntOf(SubSeq(t, 1, Len(t) - 1)) + DigitOf(t[Len(t)])

\* bin(n)[2:], the binary digits of n >= 0, most significant first
RECURSIVE Bin(_)
Bin(n) == IF n < 2 THEN <<n>> ELSE Append(Bin(n \div 2), n % 2)

ZfillNoPad(b, w) == b

\* b.zfill(w): zeros on the left up to width w, nothing cut
Zfill(b, w) ==
    IF Len(b) >= w THEN b
    ELSE [i \in 1..w |-> IF i <= w - Len(b) THEN 0 ELSE b[i - (w - Len(b))]]

\* int(b, 2)
RECURSIVE IntBase2(_)
IntBase2(b) ==
    IF b = <<>> THEN 0
    ELSE 2 * IntBase2(SubSeq(b, 1, Len(b) - 1)) + b[Len(b)]

\* datetime.fromtimestamp(t).strftime('%Y-%m-%d %H:%M:%S'), as minutes and
\* seconds since the epoch
Strftime(t) == [null |-> FALSE, min |-> t \div 60, sec |-> t % 60]

\* lines 553-565
extract_timestamp_from_video_id(video_id) ==
    IF IntParses(video_id)
    THEN LET binary == Zfill(Bin(IntOf(video_id)), 2 * HalfBits)
             \* binary[:32]: a slice takes what is there
             head == SubSeq(binary, 1, IF Len(binary) < HalfBits
                                       THEN Len(binary) ELSE HalfBits)
             timestamp == IntBase2(head)
         IN  [raised |-> FALSE, value |-> Strftime(timestamp)]
    ELSE [raised |-> FALSE, value |-> Null]

\* the ids (epoch << HalfBits) | low, one epoch beyond the half's range
\* included, and the texts that are not numbers
InitTimestamp ==
    /\ InitScraper
    /\ ScanIdle
    /\ FieldsIdle
    /\ RunIdle
    /\ TabIdle
    /\ page = EmptyPage
    /\ max_retries = MaxRetries
    /\ pc = "done"
    /\ \/ \E epoch \in 0..Pow2(HalfBits), low \in 0..(Pow2(HalfBits) - 1) :
             ts_input = [text |-> StrOf(epoch * Pow2(HalfBits) + low),
                         numeric |-> TRUE, epoch |-> epoch, low |-> low]
       \/ \E t \in UNION {[1..n -> IdChars] : n \in 0..MaxIdLen} :
             /\ ~IntParses(t)
             /\ ts_input = [text |-> t, numeric |-> FALSE, epoch |-> 0, low |-> 0]
    /\ ts_result = NoCall
    /\ ts_pc = "call"
    /\ CntIdle
    /\ MetricsIdle
    /\ TrackIdle

extract_timestamp_call ==
    /\ ts_pc = "call"
    /\ ts_result' = extract_timestamp_from_video_id(ts_input.text)
    /\ ts_pc' = "returned"
    /\ UNCHANGED <<ts_input, cnt_vars, metrics_vars, track_vars, ts_frame>>

NextTimestamp == extract_timestamp_call

SpecTimestamp == InitTimestamp /\ [][NextTimestamp]_vars

----------------------------------------------------------------------------
\* _convert_count_to_number (tiktok_scraper.py lines 487-514) applied to
\* every text of up to MaxTextLen characters of CountChars, to the sample
\* texts, and to a missing text (None).

cnt_frame == <<session_vars, scan_vars, field_vars, run_vars, tab_vars>>

CountChars == {"1", "5", ".", ",", "-", " ", "K", "k", "M", "B", "x"}

SampleTexts ==
    {<<"S", "h", "a", "r", "e">>, <<"s", "h", "a", "r", "e">>,
     <<"1", ",", "2", "3", "4">>, <<"1", ".", "5", "m">>, <<"1", "2", "b">>,
     <<"1", "5", "0", "0">>}

LowerLetters == <<"k", "m", "b", "s", "h", "a", "r", "e", "x">>
UpperLetters == <<"K", "M", "B", "S", "H", "A", "R", "E", "X">>

\* str.upper and str.lower, character by character
UpperCh(c) ==
    IF \E i \in 1..Len(LowerLetters) : LowerLetters[i] = c
    THEN UpperLetters[CHOOSE i \in 1..Len(LowerLetters) : LowerLetters[i] = c]
    ELSE c
LowerCh(c) ==
    IF \E i \in 1..Len(UpperLetters) : UpperLetters[i] = c
    THEN LowerLetters[CHOOSE i \in 1..Len(UpperLetters) : UpperLetters[i] = c]
    ELSE c
Upper(t) == [i \in 1..Len(t) |-> UpperCh(t[i])]
Lower(t) == [i \in 1..Len(t) |-> LowerCh(t[i])]

\* t.replace(c, '')
Replace(t, c) == SelectSeq(t, LAMBDA x : x # c)

\* c in t
In(c, t) == \E i \in 1..Len(t) : t[i] = c

\* the text after an optional minus sign
Unsigned(t) == IF t # <<>> /\ t[1] = "-" THEN Tail(t) ELSE t

\* float(t) does not raise ValueError: on these characters, an optional
\* minus sign, then digits with at most one decimal point and at least one
\* digit
FloatParses(t) ==
    LET body == Unsigned(t)
    IN  /\ \A i \in 1..Len(body) : body[i] \in SeqRange(Digits) \cup {"."}
        /\ Cardinality({i \in 1..Len(body) : body[i] = "."}) <= 1
        /\ \E i \in 1..Len(body) : body[i] \in SeqRange(Digits)

\* float(t) for a text that parses
FloatOf(t) ==
    LET body == Unsigned(t)
        point == {i \in 1..Len(body) : body[i] = "."}
    IN  [neg |-> t # <<>> /\ t[1] = "-",
         digits |-> IntOf(Replace(body, ".")),
         scale |-> IF point = {} THEN 0
                   ELSE Len(body) - (CHOOSE i \in point : TRUE),
         exp10 |-> 0]

\* float(t) * 10^e, or the 0 of the except clause (lines 512-514) when
\* float raises ValueError
FloatTimes(t, e) ==
    IF FloatParses(t) THEN [FloatOf(t) EXCEPT !.exp10 = e] ELSE Zero

\* lines 489-514
convert_count_to_number(input) ==
    IF input.missing \/ input.text = <<>> THEN Zero
    ELSE LET stripped == Replace(Replace(input.text, " "), ",")
             count_text == Upper(stripped)
             cleaned_text == SelectSeq(count_text,
                                LAMBDA c : c \in SeqRange(Digits) \cup {"."})
         IN  IF Lower(stripped) = <<"s", "h", "a", "r", "e">> THEN Zero
             ELSE IF In("K", count_text) THEN FloatTimes(Replace(count_text, "K"), 3)
             ELSE IF In("M", count_text) THEN FloatTimes(Replace(count_text, "M"), 6)
             ELSE IF In("B", count_text) THEN FloatTimes(Replace(count_text, "B"), 9)
             ELSE IF cleaned_text # <<>> THEN FloatTimes(cleaned_text, 0)
             ELSE Zero

InitCount ==
    /\ InitScraper
    /\ ScanIdle
    /\ FieldsIdle
    /\ RunIdle
    /\ TabIdle
    /\ TsIdle
    /\ MetricsIdle
    /\ TrackIdle
    /\ page = EmptyPage
    /\ max_retries = MaxRetries
    /\ pc = "done"
    /\ \/ cnt_input = [missing |-> TRUE, text |-> <<>>]
       \/ \E t \in UNION {[1..n -> CountChars] : n \in 0..MaxTextLen} \cup SampleTexts :
             cnt_input = [missing |-> FALSE, text |-> t]
    /\ cnt_result = [raised |-> FALSE, value |-> Zero]
    /\ cnt_pc = "call"

\* one call; the except clause catches the ValueError of float, the only
\* exception these statements raise for a str or None
convert_count_call ==
    /\ cnt_pc = "call"
    /\ cnt_result' = [raised |-> FALSE, value |-> convert_count_to_number(cnt_input)]
    /\ cnt_pc' = "returned"
    /\ UNCHANGED <<cnt_input, ts_vars, metrics_vars, track_vars, cnt_frame>>

NextCount == convert_count_call

SpecCount == InitCount /\ [][NextCount]_vars

----------------------------------------------------------------------------
\* DataManager.save_account_metrics (data_manager.py lines 96-150) called
\* again and again on one account's storage file, which at the start is
\* absent, empty, unreadable, or a table under one of Headers.
\*
\* A CSV file is a header and rows of cells in header order; a DataFrame is
\* a column list and rows that map each column to its cell. The cell of
\* column c in the record of the snap-th scrape is [snap, col]. os.rename
\* replaces an archive that is already there.

store_frame == <<session_vars, scan_vars, field_vars, run_vars, tab_vars>>

\* line 101-107
expected_columns ==
    <<"date", "scrape_timestamp", "account_name", "follower_count", "total_likes">>

Reverse(q) == [i \in 1..Len(q) |-> q[Len(q) + 1 - i]]

\* headers of a file that is already there: the expected one, the expected
\* columns in another order, and two drifted column sets
Headers ==
    {expected_columns, Reverse(expected_columns),
     SubSeq(expected_columns, 1, Len(expected_columns) - 1),
     Append(expected_columns, "bio")}

Cell(snap, c) == [snap |-> snap, col |-> c]

\* the file whose rows are the records of scrapes 1..n under header h
FileOf(h, n) ==
    [is |-> "table", header |-> h,
     rows |-> [i \in 1..n |-> [j \in 1..Len(h) |-> Cell(i, h[j])]]]

EmptyFile == [is |-> "empty", header |-> <<>>, rows |-> <<>>]
Unreadable == [is |-> "unreadable", header |-> <<>>, rows |-> <<>>]

\* pd.read_csv of a table
ReadCsv(f) ==
    [columns |-> f.header,
     rows |-> [i \in 1..Len(f.rows) |->
                  [c \in SeqRange(f.header) |->
                      f.rows[i][CHOOSE j \in 1..Len(f.header) : f.header[j] = c]]]]

\* df.to_csv(file, index=False)
ToCsv(df) ==
    [is |-> "table", header |-> df.columns,
     rows |-> [i \in 1..Len(df.rows) |->
                  [j \in 1..Len(df.columns) |-> df.rows[i][df.columns[j]]]]]

\* df[cols]
Select(df, cols) ==
    [columns |-> cols,
     rows |-> [i \in 1..Len(df.rows) |-> [c \in SeqRange(cols) |-> df.rows[i][c]]]]

ConcatNewOnly(a, b) == b

\* pd.concat([a, b], ignore_index=True) of frames with the same columns
Concat(a, b) == [columns |-> a.columns, rows |-> a.rows \o b.rows]

\* lines 110-112: the one-row frame of the record of scrape `snap`
NewFrame(snap) ==
    [columns |-> expected_columns,
     rows |-> <<[c \in SeqRange(expected_columns) |-> Cell(snap, c)]>>]

InitStore ==
    /\ InitScraper
    /\ ScanIdle
    /\ FieldsIdle
    /\ RunIdle
    /\ TabIdle
    /\ TsIdle
    /\ CntIdle
    /\ TrackIdle
    /\ page = EmptyPage
    /\ max_retries = MaxRetries
    /\ pc = "done"
    /\ metrics_file \in {NoFile, EmptyFile, Unreadable}
                          \cup {FileOf(h, n) : h \in Headers, n \in 0..MaxRows}
    /\ metrics_archive \in {NoFile, Unreadable, FileOf(<<"date", "followers">>, 1)}
    /\ metrics_call = NoSave
    /\ saves = 0

\* lines 96-150, one call; the record is that of scrape MaxRows + saves + 1
save_account_metrics ==
    /\ saves < MaxSaves
    /\ saves' = saves + 1
    /\ LET snap == MaxRows + saves + 1
           df_new == NewFrame(snap)
           archived == /\ metrics_archive' = metrics_file
                       /\ metrics_file' = ToCsv(df_new)
           started == /\ metrics_file' = ToCsv(df_new)
                      /\ UNCHANGED metrics_archive
       IN  /\ metrics_call' = [file |-> metrics_file, archive |-> metrics_archive,
                               snap |-> snap, raised |-> FALSE]
           /\ CASE metrics_file.is = "absent" -> started
                [] metrics_file.is = "empty" -> started
                [] metrics_file.is = "unreadable" -> archived
                [] metrics_file.is = "table" ->
                     LET df_existing == ReadCsv(metrics_file)
                     IN  IF SeqRange(df_existing.columns) # SeqRange(expected_columns)
                         THEN archived
                         ELSE /\ metrics_file' =
                                    ToCsv(Concat(Select(df_existing, expected_columns),
                                                 df_new))
                              /\ UNCHANGED metrics_archive
    /\ UNCHANGED <<ts_vars, cnt_vars, track_vars, store_frame>>

NextStore == save_account_metrics

SpecStore == InitStore /\ [][NextStore]_vars

----------------------------------------------------------------------------
\* DataManager.save_video_metrics (data_manager.py lines 18-94, 152-191)
\* called again and again on one account's tracking file, which is written
\* with to_csv at the end of a call and read back with read_csv (line 76) at
\* the start of the next.
\*
\* A row keeps its video_id and description cells, the number of the call
\* that gave it its other untouched columns (static: video_url,
\* posting_time, hashtags, is_new, is_pinned, date, scrape_timestamp), the
\* number of the call that gave it its update_cols (metrics: views, likes,
\* comments, shares), and first_seen and last_updated as call times.
\*
\* read_csv types each column from its cells: a video_id column whose cells
\* are all numerals is read as integers, any other as strings; a cell that
\* is empty or an NA token ('NA', 'n/a', 'null', ...) is read as NaN, and
\* to_csv writes NaN as the empty cell. The ids in videos_data are strings
\* (tiktok_scraper.py line 286), and an integer never equals a string.

tracking_columns ==
    <<"video_id", "description", "static", "metrics", "first_seen", "last_updated">>

\* the text of a video id: the numeral of v, or the v-th other text
NumId(v) == [num |-> TRUE, v |-> v]
TextId(v) == [num |-> FALSE, v |-> v]

\* the posts a videos_data can hold
TrackedPosts ==
    {[id |-> NumId(1), description |-> "plain"],
     [id |-> NumId(2), description |-> "na"],
     [id |-> TextId(1), description |-> "plain"]}

TrackingTable(rows) == [is |-> "table", header |-> tracking_columns, rows |-> rows]

\* line 76: pd.read_csv(tracking_file)
ReadTracking(f) ==
    LET numerals == \A i \in 1..Len(f.rows) : f.rows[i].video_id.num
    IN  [i \in 1..Len(f.rows) |->
            [f.rows[i] EXCEPT
                !.video_id = [int |-> numerals, text |-> @],
                !.description = IF @ \in {"na", "blank"} THEN "NaN" ELSE @]]

\* lines 157 and 190: to_csv(tracking_file, index=False)
WriteTracking(rows) ==
    TrackingTable([i \in 1..Len(rows) |->
                      [rows[i] EXCEPT
                          !.video_id = @.text,
                          !.description = IF @ = "NaN" THEN "blank" ELSE @]])

\* lines 58-69: the frame of videos_data of call `obs`, ids as strings,
\* first_seen and last_updated still None
BatchFrame(batch, obs) ==
    [k \in 1..Len(batch) |->
        [video_id |-> [int |-> FALSE, text |-> batch[k].id],
         description |-> batch[k].description,
         static |-> obs, metrics |-> obs, first_seen |-> 0, last_updated |-> 0]]

\* lines 152-158
create_new_tracking_file(df, timestamp) ==
    WriteTracking([k \in 1..Len(df) |->
                      [df[k] EXCEPT !.first_seen = timestamp,
                                    !.last_updated = timestamp]])

\* line 169: existing_df['video_id'] == new_row['video_id'], per row
IdEquals(a, b) == a.int = b.int /\ a.text = b.text

\* lines 172-179: the update_cols of a matching row
UpdatedRow(row, new_row, timestamp) ==
    [row EXCEPT !.metrics = new_row.metrics, !.last_updated = timestamp]

\* lines 168-184: the rows of new_df from the k-th on are merged into
\* existing_df one after the other
RECURSIVE MergeRows(_, _, _, _)
MergeRows(existing_df, new_df, k, timestamp) ==
    IF k > Len(new_df) THEN existing_df
    ELSE LET new_row == new_df[k]
             mask == {i \in 1..Len(existing_df) :
                         IdEquals(existing_df[i].video_id, new_row.video_id)}
             merged ==
                 IF mask # {}
                 THEN [i \in 1..Len(existing_df) |->
                          IF i \in mask
                          THEN UpdatedRow(existing_df[i], new_row, timestamp)
                          ELSE existing_df[i]]
                 ELSE Append(existing_df,
                             [new_row EXCEPT !.first_seen = timestamp,
                                             !.last_updated = timestamp])
         IN  MergeRows(merged, new_df, k + 1, timestamp)

\* lines 160-191
update_existing_tracking_file(existing_df, new_df, timestamp) ==
    WriteTracking(MergeRows(existing_df, new_df, 1, timestamp))

InitTrack ==
    /\ InitScraper
    /\ ScanIdle
    /\ FieldsIdle
    /\ RunIdle
    /\ TabIdle
    /\ TsIdle
    /\ CntIdle
    /\ MetricsIdle
    /\ page = EmptyPage
    /\ max_retries = MaxRetries
    /\ pc = "done"
    /\ track_file \in {NoFile, EmptyFile, Unreadable, TrackingTable(<<>>)}
    /\ track_call = [file |-> NoFile, batch |-> <<>>, time |-> 0]
    /\ ever_saved = {}

\* lines 18-94, one call, at time saves + 1. An empty videos_data returns
\* at line 22. The file is created when there is none, when it is empty
\* (lines 81-82), when it has no rows (line 78), and, after the old one was
\* renamed to a backup, when it cannot be read (lines 83-88); else it is
\* updated.
save_video_metrics ==
    /\ saves < MaxTrackSaves
    /\ saves' = saves + 1
    /\ \E batch \in UNION {[1..n -> TrackedPosts] : n \in 0..MaxBatch} :
          LET timestamp == saves + 1
              df == BatchFrame(batch, timestamp)
          IN  /\ track_call' = [file |-> track_file, batch |-> batch,
                                time |-> timestamp]
              /\ ever_saved' = ever_saved \cup {batch[k].id : k \in 1..Len(batch)}
              /\ IF batch = <<>> THEN UNCHANGED track_file
                 ELSE IF track_file.is = "table" /\ Len(track_file.rows) > 0
                 THEN track_file' =
                         update_existing_tracking_file(ReadTracking(track_file),
                                                       df, timestamp)
                 ELSE track_file' = create_new_tracking_file(df, timestamp)
    /\ UNCHANGED <<ts_vars, cnt_vars, metrics_file, metrics_archive, metrics_call,
                   store_frame>>

NextTrack == save_video_metrics

SpecTrack == InitTrack /\ [][NextTrack]_vars

----------------------------------------------------------------------------
\* Properties.

\* index of the attempt that `outcome` and att_rots are about: at lp_nav and
\* lp_check the loop has already moved on to the next attempt
AttIdx == IF pc \in {"lp_nav", "lp_check"} THEN attempt - 1 ELSE attempt

\* driver.get calls due when every attempt so far has issued exactly one
NavsDue == IF pc = "lp_nav" THEN attempt ELSE attempt + 1

\* rotations an attempt at index i is to trigger
ExpectedRots(i) == IF i < max_retries - 1 THEN 1 ELSE 0

\* C1: at every instant at most one browser is running, and every running
\* browser is held by self.driver or by the session being created, also
\* when driver.quit fails and when session creation fails after the launch.
C1_AtMostOneLiveOwned ==
    /\ Cardinality(live) <= 1
    /\ \A b \in live : b = driver \/ b = local_driver

\* C2: when every attempt of a load_page_with_retry call reaches a non-Ready
\* verdict (no navigation and no rotation raises), the call returns False
\* after exactly max_retries navigations and max_retries - 1 rotations, and
\* at no point has it rotated more than max_retries - 1 times.
C2_ExhaustedAfterNMinus1Rotations ==
    (~nav_failed /\ ~rot_failed /\ outcome # "Ready") =>
        /\ rots <= max_retries - 1
        /\ lp_result \in {"none", "False"}
        /\ lp_result = "False" =>
              /\ navs = max_retries
              /\ rots = max_retries - 1
              /\ att_rots = 0

C2_Witness ==
    /\ max_retries = 3
    /\ lp_result = "False"
    /\ ~nav_failed /\ ~rot_failed
    /\ navs = 3
    /\ rots = 2

\* C3: an attempt whose driver.get raised has consumed exactly one attempt
\* and, once its except clause has run, has triggered one rotation if
\* attempts remain and none otherwise; an attempt with a non-Ready verdict
\* whose rotation completed shows the same counts; after the rotation the
\* loop stands at the next attempt.
C3_NavErrorLikeNotReady ==
    (/\ outcome \in {"NavError", "NotReady"}
     /\ pc # "lp_except"
     /\ outcome = "NotReady" => ~rot_failed) =>
        /\ navs = NavsDue
        /\ att_rots = ExpectedRots(AttIdx)
        /\ pc \in {"lp_nav", "lp_check"} =>
              /\ attempt = AttIdx + 1
              /\ attempt < max_retries
              /\ lp_result = "none"

C3_Witness ==
    /\ outcome = "NavError"
    /\ pc = "lp_nav"
    /\ attempt = 1
    /\ navs = 1
    /\ att_rots = 1
    /\ rots = 1

\* C4: load_page_with_retry returns True exactly when an attempt had the
\* Ready verdict, which is then the last attempt made (no navigation or
\* rotation follows it) and one of the first max_retries; when the last
\* attempt ends non-Ready the call returns False.
C4_SuccessIffReady ==
    /\ lp_result = "True" <=> outcome = "Ready"
    /\ outcome = "Ready" =>
          /\ navs = attempt + 1
          /\ navs <= max_retries
          /\ att_rots = 0
          /\ rots >= attempt
          /\ pc \notin {"lp_nav", "lp_check", "lp_except", "sb_launch",
                        "sb_config", "sb_behavior"}
    /\ (/\ outcome \in {"NavError", "NotReady"}
        /\ AttIdx = max_retries - 1
        /\ pc # "lp_except") => lp_result = "False"

C4_Witness ==
    /\ lp_result = "True"
    /\ outcome = "Ready"
    /\ attempt = 1
    /\ max_retries = 3

\* C5: every sleep of execute_with_retry follows one retryable failure and
\* the i-th (from 0) lasts between base_delay * 2^i and base_delay * 2^i + 1,
\* bounds that increase strictly with i; when func then returns a value,
\* that value is returned after one call more than there were sleeps.
C5_BackoffThenSuccess ==
    /\ Len(sleeps) = cm_attempt
    /\ \A i \in 1..Len(sleeps) :
          /\ sleeps[i] >= base_delay * Pow2(i - 1)
          /\ sleeps[i] <= base_delay * Pow2(i - 1) + JitterMax
    /\ \A i \in 1..(Len(sleeps) - 1) :
          /\ base_delay * Pow2(i - 1) < base_delay * Pow2(i)
          /\ base_delay * Pow2(i - 1) + JitterMax < base_delay * Pow2(i) + JitterMax
    /\ op_value # NoVideos =>
          /\ sv_result = op_value
          /\ invocations = Len(sleeps) + 1
          /\ cm_raised = NoException

C5_Witness ==
    /\ op_value # NoVideos
    /\ sv_result = op_value
    /\ Len(sleeps) = 2
    /\ invocations = 3

\* the description matches neither 'Connection refused' nor 'invalid session id'
MatchesNeither(d) ==
    /\ ~Contains(d, <<"Connection", "refused">>)
    /\ ~Contains(d, <<"invalid", "session", "id">>)

\* C6: once a call of func has failed with an error matching neither
\* retryable description, that error is the one raised to the caller, no
\* sleep was made for it and func is not called again, at any attempt index.
C6_NonRetryableRaisedAtOnce ==
    (last_exception # NoException /\ MatchesNeither(last_exception.desc)) =>
        /\ cm_raised = last_exception
        /\ last_exception.inv = invocations
        /\ Len(sleeps) = invocations - 1
        /\ cm_attempt = invocations - 1
        /\ pc \in {"cleanup", "done"}

C6_Witness ==
    /\ cm_raised # NoException
    /\ cm_raised.desc = ErrNoSuchWindow
    /\ cm_raised.inv = 2
    /\ invocations = 2
    /\ Len(sleeps) = 1

\* C7: when the loop of execute_with_retry runs out (every call of func
\* failed with a retryable error), func was called exactly max_retries
\* times and the error raised is the one of the last call.
C7_LastFailureRaised ==
    (cm_max_retries >= 1 /\ cm_attempt = cm_max_retries) =>
        /\ invocations = cm_max_retries
        /\ cm_raised # NoException
        /\ cm_raised.inv = cm_max_retries
        /\ ~MatchesNeither(cm_raised.desc)
        /\ sv_result = Videos(0)

C7_Witness ==
    /\ cm_max_retries = 3
    /\ cm_attempt = 3
    /\ cm_raised # NoException
    /\ cm_raised.inv = 3

\* C8: in scrape_recent_videos, as long as every verdict is non-Ready and
\* nothing raises, execute_with_retry has called _scrape_attempt at most
\* once and has not slept; the call then returns the empty list after
\* exactly max_retries navigations and max_retries - 1 rotations.
C8_LayersNotCollapsed ==
    sv_clean =>
        /\ invocations <= 1
        /\ sleeps = <<>>
        /\ sv_result # NoVideos =>
              /\ sv_result = Videos(0)
              /\ invocations = 1
              /\ load_caller = "videos"
              /\ navs = max_retries
              /\ rots = max_retries - 1
              /\ cm_raised # NoException
              /\ cm_raised.desc = ErrLoadFailed

C8_Witness ==
    /\ sv_clean
    /\ sv_result = Videos(0)
    /\ max_retries = 3
    /\ navs = 3
    /\ invocations = 1

\* content indicators of the page that are among the four probed ones
Present == page.content \cap SeqRange(indicators)

\* C9: for every subset of the four content indicators, the check returns
\* True exactly when at least 2 of them are present and no probe raised;
\* when a probe raises it returns False.
C9_ReadyIffQuorum ==
    pc = "check_done" =>
        /\ verdict \in {"True", "False"}
        /\ ~check_err => (verdict = "True" <=> Cardinality(Present) >= 2)
        /\ check_err => verdict = "False"

C9_Witness ==
    /\ pc = "check_done"
    /\ ~check_err
    /\ Cardinality(Present) = 2
    /\ verdict = "True"

C11_RecordsFromReadyPages ==
    \A k \in 1..Len(extracted) : extracted[k].checked

\* C14: a post extracted with is_new = False and is_pinned = False is the
\* last post extracted by the scan: no detail page is opened after it, in
\* the same pass or in a later one.
C14_NothingFetchedAfterOldPost ==
    /\ \A k \in 1..(Len(extracted) - 1) :
          ~(~extracted[k].is_new /\ ~extracted[k].is_pinned)
    /\ (Len(extracted) > 0 /\ ~extracted[Len(extracted)].is_new
        /\ ~extracted[Len(extracted)].is_pinned) =>
          scan_pc \in {"pass_end", "save", "returned"}
    /\ scan_pc = "returned" =>
          (stopped <=> (Len(extracted) > 0 /\ ~extracted[Len(extracted)].is_new
                        /\ ~extracted[Len(extracted)].is_pinned))

C14_Witness ==
    /\ scan_pc = "returned"
    /\ Len(grid) = 2
    /\ video_elements = 2
    /\ Len(extracted) = 1
    /\ extracted[1].video_id = 1
    /\ ~extracted[1].is_new /\ ~extracted[1].is_pinned

\* what C15 says of every state: with EXCLUDE_PINNED_VIDEOS the list holds
\* no record with is_pinned = True; every extracted record carries the
\* pinned status of its post; the inner loop is left early, and the scan
\* stopped, only on a record that is not pinned
PinnedExcluded ==
    /\ EXCLUDE_PINNED_VIDEOS => \A k \in 1..Len(videos) : ~videos[k].is_pinned
    /\ \A k \in 1..Len(extracted) :
          extracted[k].is_pinned = grid[extracted[k].video_id].pinned
    /\ (scan_pc = "pass_end" /\ elem <= video_elements) =>
          /\ Len(extracted) > 0
          /\ ~extracted[Len(extracted)].is_pinned
    /\ (Len(extracted) > 0 /\ extracted[Len(extracted)].is_pinned) => ~stopped

\* what C15 says of every step: the step that extracts a pinned post, of
\* any age, adds nothing to the list and goes on with the next element
PinnedNeverStops ==
    (Len(extracted') = Len(extracted) + 1 /\ extracted'[Len(extracted')].is_pinned) =>
        /\ videos' = videos
        /\ scan_pc' = "element"
        /\ elem' = elem + 1
        /\ stopped' = stopped

\* C15: with exclude_pinned_videos = True the returned list contains no
\* pinned record, the pinned status is still computed for every extracted
\* post, and a pinned post never triggers the stop condition whatever its
\* age, so the scan goes on with the posts after it.
C15_PinnedExcludedNeverStops == []PinnedExcluded /\ [][PinnedNeverStops]_vars

C15_Witness ==
    /\ scan_pc = "returned"
    /\ Len(extracted) >= 2
    /\ extracted[1].is_pinned /\ ~extracted[1].is_new
    /\ extracted[2].video_id = 2
    /\ Len(videos) >= 1
    /\ \A k \in 1..Len(videos) : ~videos[k].is_pinned

\* C16: within one scan no post is extracted twice (pinned posts left out
\* of the list included) and no two records of the list share a video_id.
C16_NoPostExtractedTwice ==
    /\ \A j, k \in 1..Len(extracted) :
          extracted[j].video_id = extracted[k].video_id => j = k
    /\ \A j, k \in 1..Len(videos) :
          videos[j].video_id = videos[k].video_id => j = k

\* what a field's extractor is to yield on the page: the default when the
\* lookup raises, else the value shown
Shown(f) == IF field_dom[f].raises THEN Default ELSE field_dom[f].value

\* C12: scrape_account_metrics returns a record, and a row is written, only
\* when follower_count and total_likes are both non-zero; when either is
\* zero it returns None and writes nothing.
C12_RecordOnlyWhenBothNonZero ==
    (fields_pc = "done" /\ kind = "account") =>
        /\ record.built <=> (Shown("follower_count") # 0 /\ Shown("total_likes") # 0)
        /\ record.built =>
              /\ record.values["follower_count"] = Shown("follower_count")
              /\ record.values["total_likes"] = Shown("total_likes")
        /\ ~record.built => written = 0
        /\ written <= 1

C12_Witness ==
    /\ fields_pc = "done"
    /\ kind = "account"
    /\ record.built
    /\ written = 1
    /\ record.values["follower_count"] # 0
    /\ record.values["total_likes"] # 0

\* C17: a field whose extraction raises is given its zero/empty default;
\* the failure reaches no except clause of the record builder, leaves the
\* other fields of the record as the page shows them, and the record is
\* still built; an account attempt fails only through the zero validation.
C17_FieldFailuresDefaulted ==
    fields_pc = "done" =>
        /\ ~propagated
        /\ kind = "account" =>
              (~record.built <=>
                 (Shown("follower_count") = 0 \/ Shown("total_likes") = 0))
        /\ (/\ kind = "post"
            /\ ~field_dom["link"].raises
            /\ ~field_dom["views"].raises
            /\ ~field_dom["tab"].raises) =>
              /\ record.built
              /\ \A f \in PostFields : record.values[f] = Shown(f)

C17_Witness ==
    /\ fields_pc = "done"
    /\ kind = "post"
    /\ record.built
    /\ field_dom["likes"].raises
    /\ field_dom["posting_time"].raises
    /\ record.values["likes"] = Default
    /\ record.values["comments"] = 1
    /\ record.values["is_pinned"] = 1

\* C13: an account whose metrics failed the zero validation is abandoned
\* only after scrape_account_metrics has been tried again for it.
C13_ValidationRetriedBeforeAbandoned ==
    (account \in abandoned /\ validation_failed) => metrics_calls >= 2

\* C18: once the browser process has been launched, session creation does
\* not fail: whatever softer step raises afterwards, start_browser goes on
\* with the handle of the launched browser stored in self.driver.
C18_SoftStepsSwallowed ==
    [][pc = "sb_config" => (pc' = "sb_behavior" /\ driver' = local_driver)]_vars

\* C19: the accounts' iterations begin in list order, each once; an
\* exception raised in an account's iteration never leaves the loop over
\* the accounts, and when the loop ends every account has been attempted.
C19_EveryAccountAttemptedOnce ==
    /\ Len(attempted) = account
    /\ \A i \in 1..Len(attempted) : attempted[i] = i
    /\ account <= NumAccounts
    /\ (errored \cup abandoned \cup completed) \subseteq 1..account
    /\ run_pc = "main_error" => (attempted = <<>> /\ errored = {})
    /\ run_pc \in {"combined", "sleep"} => Len(attempted) = NumAccounts
    /\ (run_pc = "exited" /\ Len(attempted) < NumAccounts) => interrupt_pc # "none"

C19_Witness ==
    /\ run_pc = "combined"
    /\ interrupt_pc = "none"
    /\ 1 \in errored
    /\ Len(attempted) = NumAccounts
    /\ NumAccounts \in completed

\* C20: when the interrupt arrives while scrape_account_metrics or
\* scrape_recent_videos is running, the process leaves the main loop only
\* after that account's iteration has ended by itself (completed, skipped
\* or failed), not by cutting the extraction short.
C20_InterruptWaitsForBoundary ==
    (run_pc = "exited" /\ interrupt_pc \in ExtractionPcs) =>
        account \in (completed \cup abandoned \cup errored)

\* C26: load_page_with_retry never raises to its caller, whatever fails
\* during navigation, the readiness check, the quit or the creation of the
\* new session, and no attempt rotates the session more than once.
C26_LoadNeverRaisesOneRotation ==
    /\ lp_result # "Raised"
    /\ att_rots <= 1

\* C29: scrape_recent_videos always returns. When execute_with_retry raised
\* to it, for a non-retryable error, for retryable errors on every attempt
\* or for a page that never became Ready, it returns the empty list and no
\* post record has been saved in the call, whatever the failed attempts
\* had extracted.
C29_FailureGivesEmptyListNothingSaved ==
    /\ cm_raised # NoException =>
          /\ sv_result = Videos(0)
          /\ saved_rows = 0
    /\ (pc = "done" /\ invocations > 0) => sv_result.returned

C29_Witness ==
    /\ pc = "done"
    /\ cm_raised # NoException
    /\ attempt_videos > 0
    /\ sv_result = Videos(0)
    /\ saved_rows = 0

\* C25 as stated: the post sync of an account is issued only after a
\* post-level save of that account has succeeded in the same run.
C25_SyncOnlyAfterPostSave == synced \subseteq posts_saved

\* C25 as amended: the post sync of an account is issued only at the end of
\* an iteration in which nothing raised, save step included, and only when
\* the account's tracking file exists, whether this run's save or an
\* earlier run's left it there.
C25_SyncAfterSaveStepIfFileExists ==
    /\ synced \subseteq tracking_files
    /\ synced \subseteq completed
    /\ synced \cap errored = {}
    /\ posts_saved \cap completed \subseteq synced

\* a sync issued in a run that produced no post records for the account
C25_Witness ==
    /\ run_pc = "finally"
    /\ account \in synced
    /\ account \notin posts_saved
    /\ ~videos_data

\* C28: every account whose scraper was constructed has had its cleanup
\* called before the next account's session is created and before
\* run_scraper returns, on every path.
C28_CleanupBeforeNextAccount ==
    /\ run_pc \in TryPcs \cup {"except", "finally"} =>
          constructed \ {account} \subseteq cleaned
    /\ run_pc \notin TryPcs \cup {"except", "finally"} =>
          constructed \subseteq cleaned

\* C27: whenever _get_video_page_metrics returns, with the metrics or with
\* the defaults of its except clause, the profile tab is the only open tab
\* and it is the focused one.
C27_ProfileTabFocusedOnReturn ==
    tab_exit \in {"metrics", "defaults"} =>
        /\ windows = <<Profile>>
        /\ focus = Profile

\* C23: for an id (epoch << HalfBits) | low with both halves in range, the
\* call returns the timestamp string of epoch, id >> HalfBits, whatever low
\* is; for a text that is not a number it returns None; it never raises.
C23_TimestampIsHighHalf ==
    ts_pc = "returned" =>
        /\ ~ts_result.raised
        /\ (ts_input.numeric /\ ts_input.epoch < Pow2(HalfBits)) =>
              /\ ts_result.value = Strftime(ts_input.epoch)
              /\ ts_input.epoch = IntOf(ts_input.text) \div Pow2(HalfBits)
        /\ ~ts_input.numeric => ts_result.value = Null

C23_Witness ==
    /\ ts_pc = "returned"
    /\ ts_input.numeric
    /\ ts_input.epoch = Pow2(HalfBits) - 1
    /\ ts_input.low = Pow2(HalfBits) - 1
    /\ ts_result.value = Strftime(ts_input.epoch)

\* the text is <number><suffix>: an unsigned decimal numeral followed by
\* the one letter s, in either case
SuffixForm(t, s) ==
    /\ t # <<>>
    /\ UpperCh(t[Len(t)]) = s
    /\ LET number == SubSeq(t, 1, Len(t) - 1)
       IN  number = Unsigned(number) /\ FloatParses(number)

NumberOf(t) == FloatOf(SubSeq(t, 1, Len(t) - 1))

NonNegative(v) == ~v.neg \/ v.digits = 0

\* C24: for every text the conversion returns without raising, and what it
\* returns is not negative; <number>K, <number>M, <number>B in either case
\* give number times 10^3, 10^6, 10^9; an empty or missing text gives 0;
\* 'Share' gives 0; '1,234' gives 1234; a text without any digit gives 0.
C24_CountConversion ==
    cnt_pc = "returned" =>
        LET t == cnt_input.text
            v == cnt_result.value
        IN  /\ ~cnt_result.raised
            /\ NonNegative(v)
            /\ \A k \in 1..3 :
                  SuffixForm(t, <<"K", "M", "B">>[k]) =>
                      v = [NumberOf(t) EXCEPT !.exp10 = 3 * k]
            /\ (cnt_input.missing \/ t = <<>>) => v = Zero
            /\ t = <<"S", "h", "a", "r", "e">> => v = Zero
            /\ t = <<"1", ",", "2", "3", "4">> =>
                  v = [neg |-> FALSE, digits |-> 1234, scale |-> 0, exp10 |-> 0]
            /\ (\A i \in 1..Len(t) : t[i] \notin SeqRange(Digits)) => v.digits = 0

\* the column set of file f is the expected one
Matches(f) == f.is = "table" /\ SeqRange(f.header) = SeqRange(expected_columns)

C21_OneRowPerVideoId ==
    LET rows == track_file.rows
    IN  /\ \A i, j \in 1..Len(rows) : rows[i].video_id = rows[j].video_id => i = j
        /\ {rows[i].video_id : i \in 1..Len(rows)} = ever_saved

\* C30: a save_video_metrics call leaves every row that was in the tracking
\* file in its place with its video_id, first_seen, description and other
\* untouched columns as they were, and, when no post of the call has the
\* row's id, with its metrics and last_updated as they were.
C30_OnlyUpdateColsChange ==
    saves > 0 =>
        LET before == track_call.file.rows
            after == track_file.rows
            batch == track_call.batch
        IN  \A i \in 1..Len(before) :
                /\ i <= Len(after)
                /\ after[i].video_id = before[i].video_id
                /\ after[i].first_seen = before[i].first_seen
                /\ after[i].static = before[i].static
                /\ after[i].description = before[i].description
                /\ (\A k \in 1..Len(batch) : batch[k].id # before[i].video_id) =>
                      /\ after[i].metrics = before[i].metrics
                      /\ after[i].last_updated = before[i].last_updated

====
